---- MODULE Spec2Model ----
(***************************************************************************)
(* Model of the report workflow of astock_report:                          *)
(*   - ReportWorkflow.run / _apply_rerun_hooks   (workflows/graph.py)      *)
(*   - the stage handlers                        (workflows/nodes/*.py)    *)
(*   - the QA checklist                          (workflows/nodes/qa.py)   *)
(* The workflow state dict is the record `state`; `queue` is the position  *)
(* of the single execution thread (the handler calls still to be made),    *)
(* `trace` records the handler invocations made so far.                    *)
(* Texts are modelled by what the code inspects: whether the key is set,   *)
(* the stripped length, the Map/Reduce markers, the source markers.        *)
(***************************************************************************)
EXTENDS Integers, Sequences, FiniteSets, TLC

\* ---------------------------------------------------------------- bounds
\* Number of collaborator failures (LLM, database, provider, renderer)
\* injected in one run.
MaxFaults == 1

\* ------------------------------------------------------- program constants
MIN_NARRATIVE_CHARS == 140
\* len("(未配置Gemini，待完善)")
PlaceholderLen == 15
\* len("公司简介 待补充（模型未返回有效内容）")
FallbackLen == 19

NARRATIVE_KEYS ==
    <<"company_intro", "industry_analysis", "growth_analysis",
      "financial_analysis", "valuation_analysis", "core_viewpoints">>

OUTPUT_KEYS == NARRATIVE_KEYS

\* (key, critical) of qa.CHECKS, in checklist order
CHECKS ==
    << <<"financials", TRUE>>, <<"price_history", FALSE>>, <<"ratios", TRUE>>,
       <<"valuation", TRUE>>, <<"news_digest", TRUE>>, <<"news_quality", TRUE>>,
       <<"qual_notes", TRUE>>, <<"company_intro", TRUE>>,
       <<"industry_analysis", TRUE>>, <<"growth_analysis", TRUE>>,
       <<"financial_analysis", TRUE>>, <<"valuation_analysis", TRUE>>,
       <<"risk_catalyst", TRUE>>, <<"review_report", FALSE>>,
       <<"anomalies", FALSE>>, <<"markdown_report", TRUE>>,
       <<"citations_news", FALSE>>, <<"citations_qual", FALSE>> >>

\* build_default_stages(): the declared order of the base pass
StageOrder ==
    <<"ingest_financials", "enrich_market", "quant_metrics",
      "news_fetch_mapreduce", "qual_research", "valuation", "narrative",
      "risk", "reviewer", "chart_builder", "writing", "qa">>

Range(s) == {s[i] : i \in 1..Len(s)}

\* build_default_stages(): the depends_on list each StageSpec declares
DependsOn(key) ==
    CASE key = "ingest_financials" -> {}
      [] key = "enrich_market" -> {"ingest_financials"}
      [] key = "quant_metrics" -> {"enrich_market"}
      [] key = "news_fetch_mapreduce" -> {"ingest_financials"}
      [] key = "qual_research" -> {"news_fetch_mapreduce"}
      [] key = "valuation" -> {"quant_metrics", "qual_research"}
      [] key = "narrative" -> {"valuation"}
      [] key = "risk" -> {"valuation"}
      [] key = "reviewer" -> {"narrative", "risk"}
      [] key = "chart_builder" -> {"valuation"}
      [] key = "writing" -> {"narrative", "risk", "reviewer", "chart_builder"}
      [] OTHER -> {"writing", "reviewer"}
\* the stages key depends on, directly or through other stages
RECURSIVE Upstream(_)
Upstream(key) ==
    DependsOn(key) \cup UNION {Upstream(d) : d \in DependsOn(key)}
\* the stages that depend on key, directly or through other stages
Downstream(key) == {k \in Range(StageOrder) : key \in Upstream(k)}

\* ------------------------------------------------------------ value shapes
\* Optional float: Python None, NaN or a number.
NoneNum == [kind |-> "none", v |-> 0]
NaNNum == [kind |-> "nan", v |-> 0]
Num(x) == [kind |-> "num", v |-> x]

\* Optional text.  len is len(text.strip()); map/reduce/thinking are what
\* _valid_news_digest looks for; cite is what _has_citation looks for; id
\* names the content (0 for fixed literals).
NoText == [set |-> FALSE, len |-> 0, map |-> FALSE, reduce |-> FALSE,
           thinking |-> FALSE, cite |-> FALSE, id |-> 0]
Text(l, m, r, t, c, i) ==
    [set |-> TRUE, len |-> l, map |-> m, reduce |-> r, thinking |-> t,
     cite |-> c, id |-> i]
Plain(l, i) == Text(l, FALSE, FALSE, FALSE, FALSE, i)

\* bool(text): a set, non-empty string.  The model keeps stripped lengths,
\* and no handler stores a whitespace-only text.
Truthy(t) == t.set /\ t.len > 0

NoValuation == [set |-> FALSE, methods |-> {}, intrinsic |-> NoneNum]
NoRatios == [set |-> FALSE, eps |-> NoneNum]
NoReport == [set |-> FALSE, passed |-> FALSE, missing |-> {},
             missing_narratives |-> <<>>, short_narratives |-> <<>>,
             rewrite_requests |-> <<>>, warnings |-> <<>>]
NoMarkdown == [set |-> FALSE, qa_report |-> NoReport, review_report |-> NoText]

VARIABLES
    gemini,    \* context.gemini is not None
    tushare,   \* context.tushare is not None
    state,     \* the ReportState dict threaded through the handlers
    queue,     \* calls the run still has to make, in order
    pc,        \* "running", "done" (run returned), "raised" (run raised)
    trace,     \* handler invocations so far (stage keys and PostRun marks)
    faults     \* collaborator failures injected so far

vars == <<gemini, tushare, state, queue, pc, trace, faults>>

\* ReportWorkflow.run: the initial_state literal
InitialState ==
    [logs |-> <<>>, errors |-> <<>>,
     financials |-> "None", price_history |-> FALSE,
     current_price |-> NoneNum, ratios |-> NoRatios, anomalies |-> FALSE,
     valuation |-> NoValuation,
     news_digest |-> NoText, qual_notes |-> NoText,
     sections |-> [k \in Range(NARRATIVE_KEYS) |-> NoText],
     risk_catalyst |-> NoText, review_report |-> NoText,
     markdown_report |-> NoMarkdown,
     rewrite_requests |-> <<>>,
     qa_warnings |-> <<>>, qa_report |-> NoReport]

Log(s, m) == [s EXCEPT !.logs = Append(@, m)]
Err(s, m) == [s EXCEPT !.errors = Append(@, m)]

\* ------------------------------------------------------------------ qa.py
QA_VALUATION_EMPTY == "QA: valuation result empty or not computed"
QA_PE_BAND_INVALID == "QA: pe_band lacks valid EPS or price"

IsNarrativeKey(key) == key \in Range(NARRATIVE_KEYS)

\* qa._has_content / qa._is_too_short / qa._has_citation
HasContent(t) == t.set /\ t.len > 0
IsTooShort(t) == t.set /\ t.len < MIN_NARRATIVE_CHARS
HasCitation(t) == t.set /\ t.cite

\* variant: one of the two parts is enough
ValidNewsDigestEitherPart(t) ==
    /\ t.set /\ t.len > 0
    /\ ~t.thinking
    /\ t.map \/ t.reduce

\* news._valid_news_digest on the stored (normalized) digest; qa passes
\* `value or ""`, so an unset digest is the empty string.
ValidNewsDigest(t) ==
    /\ t.set /\ t.len > 0
    /\ ~t.thinking
    /\ t.map /\ t.reduce

NewsDigestInvalid(t) == ~ValidNewsDigest(t)

\* qa.run, the body of the loop over CHECKS: is the entry `present`?
CheckPresent(s, key) ==
    CASE key = "financials" -> s.financials # "None"
      [] key = "price_history" -> s.price_history
      [] key = "ratios" -> s.ratios.set
      [] key = "valuation" -> s.valuation.set
      [] key = "news_digest" -> Truthy(s.news_digest)
      [] key = "news_quality" -> ~NewsDigestInvalid(s.news_digest)
      [] key = "qual_notes" -> Truthy(s.qual_notes)
      [] IsNarrativeKey(key) -> HasContent(s.sections[key])
      [] key = "risk_catalyst" -> Truthy(s.risk_catalyst)
      [] key = "review_report" -> Truthy(s.review_report)
      [] key = "anomalies" -> s.anomalies
      [] key = "markdown_report" -> s.markdown_report.set
      [] key = "citations_news" -> HasCitation(s.news_digest)
      [] key = "citations_qual" -> HasCitation(s.qual_notes)
      [] OTHER -> FALSE

CheckKeys == [i \in 1..Len(CHECKS) |-> CHECKS[i][1]]
Critical(i) == CHECKS[i][2]

\* keys of the checklist, in checklist order, that satisfy P
RECURSIVE KeysWhere(_, _, _)
KeysWhere(P(_, _), s, i) ==
    IF i > Len(CHECKS) THEN <<>>
    ELSE (IF P(s, CheckKeys[i]) THEN <<CheckKeys[i]>> ELSE <<>>)
         \o KeysWhere(P, s, i + 1)

NarrativeMissing(s, key) ==
    IsNarrativeKey(key) /\ ~HasContent(s.sections[key])
NarrativeShort(s, key) ==
    IsNarrativeKey(key) /\ HasContent(s.sections[key])
    /\ IsTooShort(s.sections[key])

MissingNarratives(s) == KeysWhere(NarrativeMissing, s, 1)
ShortNarratives(s) == KeysWhere(NarrativeShort, s, 1)

\* errors appended by the loop: one per critical entry that is not present
RECURSIVE CriticalErrors(_, _)
CriticalErrors(s, i) ==
    IF i > Len(CHECKS) THEN <<>>
    ELSE (IF Critical(i) /\ ~CheckPresent(s, CheckKeys[i])
          THEN << "QA: " \o CheckKeys[i] \o " missing" >> ELSE <<>>)
         \o CriticalErrors(s, i + 1)

MissingChecks(s) ==
    {CheckKeys[i] : i \in {j \in 1..Len(CHECKS) : ~CheckPresent(s, CheckKeys[j])}}

Request(stage, reason, keys, action) ==
    [stage |-> stage, reason |-> reason, missing_keys |-> keys,
     suggested_action |-> action]

Warning(msg, keys) == [msg |-> msg, keys |-> keys]

\* `if msg not in xs: xs.append(msg)`
AppendNew(xs, x) == IF x \in Range(xs) THEN xs ELSE Append(xs, x)

W_SHORT == "narrative too short"
W_NO_DCF == "DCF not generated"
W_NO_EV_EBITDA == "EV/EBITDA not generated"
W_NEG_INTRINSIC == "negative intrinsic value with positive price"
W_NEWS == "news digest malformed, rerun news node"

\* qa._validate_valuation: the pe_band condition (qa.py line 191)
PeBandInvalid(methods, eps, current_price) ==
    /\ "pe_band" \in methods
    /\ \/ eps.kind = "none"
       \/ eps.kind = "nan"
       \/ (eps.kind = "num" /\ eps.v <= 0)
       \/ current_price.kind = "none"
       \/ (current_price.kind = "num" /\ current_price.v = 0)

\* variant: `if methods is None`, which lets an empty mapping through
MethodsIsNone(valuation) == ~valuation.set

\* qa._validate_valuation: `if not methods`, true of a missing mapping and
\* of an empty one
MethodsEmpty(valuation) == ~valuation.set \/ valuation.methods = {}

\* qa._validate_valuation; s carries the lists it mutates
ValidateValuation(s) ==
    LET methods == IF s.valuation.set THEN s.valuation.methods ELSE {}
        intrinsic == IF s.valuation.set THEN s.valuation.intrinsic ELSE NoneNum
        eps == IF s.ratios.set THEN s.ratios.eps ELSE NoneNum
        price == s.current_price
    IN  IF MethodsEmpty(s.valuation)
        THEN [s EXCEPT
                !.errors = AppendNew(@, QA_VALUATION_EMPTY),
                !.rewrite_requests = Append(@,
                    Request("valuation", "valuation empty", <<>>,
                            "rerun_valuation_node"))]
        ELSE
          LET w1 == IF "dcf" \notin methods
                       /\ Warning(W_NO_DCF, <<>>) \notin Range(s.qa_warnings)
                    THEN <<Warning(W_NO_DCF, <<>>)>> ELSE <<>>
              w2 == IF "ev_ebitda" \notin methods
                       /\ Warning(W_NO_EV_EBITDA, <<>>) \notin Range(s.qa_warnings)
                    THEN <<Warning(W_NO_EV_EBITDA, <<>>)>> ELSE <<>>
              s1 == [s EXCEPT !.qa_warnings = @ \o w1 \o w2]
              s2 == IF PeBandInvalid(methods, eps, price)
                    THEN [s1 EXCEPT
                            !.errors = AppendNew(@, QA_PE_BAND_INVALID),
                            !.rewrite_requests = Append(@,
                                Request("valuation", "pe_band lacks EPS/price",
                                        <<>>, "rerun_valuation_node"))]
                    ELSE s1
          IN  IF /\ intrinsic.kind = "num"
                 /\ price.kind = "num" /\ price.v > 0
                 /\ intrinsic.v <= 0
              THEN Log([s2 EXCEPT !.qa_warnings =
                            AppendNew(@, Warning(W_NEG_INTRINSIC, <<>>))],
                       "QAAgent -> flagged negative intrinsic vs positive price")
              ELSE s2

\* variant: errors.clear() in place of the filter
QaResetClearingErrors(s) == [s EXCEPT !.rewrite_requests = <<>>, !.errors = <<>>]

\* variant: rewrite_requests.clear() left out
QaResetKeepingRequests(s) ==
    [s EXCEPT !.errors = SelectSeq(@, LAMBDA e : e # QA_VALUATION_EMPTY)]

\* qa.run lines 51-52: the lists are cleared / filtered in place
QaReset(s) ==
    [s EXCEPT !.rewrite_requests = <<>>,
              !.errors = SelectSeq(@, LAMBDA e : e # QA_VALUATION_EMPTY)]

\* qa.run
QaRun(s) ==
    LET s0 == Log(QaReset(s), "QAAgent -> verify mandatory sections")
        missing == MissingNarratives(s)
        short == ShortNarratives(s)
        s1 == [s0 EXCEPT !.errors = @ \o CriticalErrors(s, 1)]
        s2 == IF missing # <<>>
              THEN [Log(s1, "QAAgent -> narrative sections missing")
                    EXCEPT !.rewrite_requests = Append(@,
                        Request("narrative", "narrative missing or empty",
                                missing, "rerun_narrative_node"))]
              ELSE s1
        s3 == IF short # <<>>
              THEN [s2 EXCEPT
                      !.qa_warnings = AppendNew(@, Warning(W_SHORT, short)),
                      !.rewrite_requests = Append(@,
                          Request("narrative", W_SHORT, short,
                                  "rerun_narrative_node"))]
              ELSE s2
        s4 == ValidateValuation(s3)
        s5 == IF NewsDigestInvalid(s.news_digest)
              THEN [s4 EXCEPT
                      !.qa_warnings = AppendNew(@, Warning(W_NEWS, <<>>)),
                      !.rewrite_requests = Append(@,
                          Request("news_fetch_mapreduce", W_NEWS, <<>>,
                                  "rerun_news_node"))]
              ELSE s4
    IN  [s5 EXCEPT !.qa_report =
            [set |-> TRUE,
             passed |-> MissingChecks(s) = {},
             missing |-> MissingChecks(s),
             missing_narratives |-> missing,
             short_narratives |-> short,
             rewrite_requests |-> s5.rewrite_requests,
             warnings |-> s5.qa_warnings]]

\* ------------------------------------------------------ the stage handlers
\* Every handler is Run(s, o, n): s the state it receives, o the outcome of
\* its collaborators (drawn from a small set by the action), n the number
\* of the invocation, which names the texts generated in it.

\* Values the collaborators deliver
LastClose == Num(15)
AnchorClose == Num(0)
LongLen == 180
ShortLen == 120
ShortSets == {{"company_intro"}, {"core_viewpoints"}}

\* data_load.run
DataLoadOutcomes ==
    {"raise", "cached"}
    \cup (IF tushare THEN {"fetched", "fetch_failed"} ELSE {"unavailable"})
DataLoadFaults == {"raise", "fetch_failed"}
DataLoadRaises == {"raise"}

DataLoadRun(s, o, n) ==
    LET s0 == Log(s, "DataLoadAgent -> lookup financial statements")
    IN  CASE o = "raise" -> s0
          [] o = "cached" ->
               [Log(s0, "Loaded cached statements from SQLite.")
                EXCEPT !.financials = "cached"]
          [] o = "fetched" ->
               [Log(Log(s0, "No cached data found; fallback to TuShare API."),
                    "Fetched and cached statement rows from TuShare")
                EXCEPT !.financials = "fetched"]
          [] o = "fetch_failed" ->
               [Err(Log(s0, "No cached data found; fallback to TuShare API."),
                    "TuShare fetch failed")
                EXCEPT !.financials = "placeholder"]
          [] OTHER ->
               [Err(s0, "Neither cached data nor TuShare client is available.")
                EXCEPT !.financials = "placeholder"]

\* price_enrich.run
PriceEnrichOutcomes ==
    {<<"raise", NoneNum>>, <<"cached", LastClose>>}
    \cup (IF tushare
          THEN {<<"empty", NoneNum>>, <<"fetch_failed", NoneNum>>,
                <<"hint_failed", LastClose>>}
          ELSE {<<"anchor", AnchorClose>>, <<"skipped", NoneNum>>})
PriceEnrichFaults ==
    {<<"raise", NoneNum>>, <<"fetch_failed", NoneNum>>,
     <<"hint_failed", LastClose>>}
PriceEnrichRaises == {<<"raise", NoneNum>>}

PriceEnrichRun(s, o, n) ==
    LET s0 == Log(s, "PriceEnrichAgent -> fetch recent price/volume window")
        kind == o[1]
        close == o[2]
        priced(t) == [t EXCEPT !.price_history = TRUE,
                               !.current_price =
                                   IF close.kind = "none" THEN @ ELSE close]
    IN  CASE kind = "raise" -> s0
          [] kind = "cached" ->
               priced(Log(s0, "PriceEnrichAgent -> loaded cached price rows"))
          [] kind = "hint_failed" ->
               Err(priced(Log(s0, "PriceEnrichAgent -> cached price rows from TuShare")),
                   "PriceEnrichAgent -> beta/WACC hint failed")
          [] kind = "empty" ->
               Log(s0, "PriceEnrichAgent -> TuShare returned no price data")
          [] kind = "fetch_failed" -> Err(s0, "Price enrich failed")
          [] kind = "anchor" ->
               [Log(s0, "PriceEnrichAgent -> used cached price anchor")
                EXCEPT !.current_price = close]
          [] OTHER ->
               Log(s0, "PriceEnrichAgent -> skipped (TuShare not configured)")

\* quant_metrics.run
QuantMetricsOutcomes == {"ok", "failed"}
QuantMetricsFaults == {"failed"}

\* ratios["eps"] of RatioCalculator.calculate: NaN on the placeholder
\* statements (no metrics), a number otherwise
EpsOf(financials) == IF financials = "placeholder" THEN NaNNum ELSE Num(1)

QuantMetricsRun(s, o, n) ==
    IF s.financials = "None"
    THEN Err(s, "QuantMetricsAgent skipped because financial dataset is incomplete.")
    ELSE LET s0 == Log(s, "QuantMetricsAgent -> compute growth and ratios")
         IN  IF o = "ok"
             THEN [s0 EXCEPT !.ratios = [set |-> TRUE, eps |-> EpsOf(s.financials)],
                             !.anomalies = TRUE]
             ELSE Err(s0, "Quant metrics failed")

\* news.run
NewsOutcomes ==
    IF gemini
    THEN {"valid", "map_only", "failed"}
    ELSE {"unconfigured"}
NewsFaults == {"failed"}

NewsRun(s, o, n) ==
    LET s0 == Log(s, "NewsSentimentAgent -> fetch and summarize latest public news")
        retry(t, k) == Log(t, "NewsSentimentAgent -> output invalid format, retrying")
    IN  CASE o = "unconfigured" ->
               [Log(s, "NewsSentimentAgent -> skipped (Gemini client not configured)")
                EXCEPT !.news_digest = Plain(18, 0)]
          [] o = "valid" ->
               [s0 EXCEPT !.news_digest = Text(LongLen, TRUE, TRUE, FALSE, TRUE, n)]
          [] o = "map_only" ->
               [Err(retry(retry(s0, 1), 2),
                    "News summarization returned invalid Map/Reduce format after retries.")
                EXCEPT !.news_digest = Text(LongLen, TRUE, FALSE, FALSE, TRUE, n)]
          [] OTHER -> Err(s0, "News summarization failed")

\* qual_research.run
QualResearchOutcomes == IF gemini THEN {"ok", "failed"} ELSE {"unconfigured"}
QualResearchFaults == {"failed"}

QualResearchRun(s, o, n) ==
    CASE o = "unconfigured" ->
           [Log(s, "QualResearchAgent -> skipped (Gemini client not configured)")
            EXCEPT !.qual_notes = Plain(18, 0)]
      [] o = "ok" ->
           [s EXCEPT !.qual_notes = Text(LongLen, FALSE, FALSE, FALSE, TRUE, n)]
      [] OTHER -> Err(s, "Qual research failed")

\* financials.ValuationBundle: the fields of the dataclass
ValuationBundleFields == {"intrinsic_value", "valuation_methods"}
\* ValuationEngine.run, its return statement: the keywords passed to
\* ValuationBundle(...)
EngineBundleKeywords ==
    {"intrinsic_value", "valuation_methods", "assumptions", "warnings"}
\* A dataclass constructor raises TypeError on an unexpected keyword.
ValuationEngineRaises == ~(EngineBundleKeywords \subseteq ValuationBundleFields)

\* valuation.run; o is the bundle the engine computes
ValuationOutcomes ==
    {<<{}, NoneNum>>, <<{"dcf", "pe_band", "ev_ebitda"}, Num(20)>>,
     <<{"pe_band"}, Num(20)>>, <<{"dcf"}, Num(-5)>>}

ValuationRun(s, o, n) ==
    IF s.financials = "None" \/ ~s.ratios.set
    THEN Err(s, "ValuationAgent skipped because prerequisites are missing.")
    ELSE LET s0 == Log(s, "ValuationAgent -> execute DCF and peer comparisons")
         IN  IF ValuationEngineRaises
             THEN Err(s0, "Valuation engine failed")
             ELSE [s0 EXCEPT !.valuation =
                      [set |-> TRUE, methods |-> o[1], intrinsic |-> o[2]]]

\* narrative.run
NarrativeOutcomes ==
    IF gemini
    THEN {<<"ok", {}>>, <<"failed", {}>>}
         \cup {<<"short", S>> : S \in ShortSets}
    ELSE {<<"unconfigured", {}>>}
NarrativeFaults == {<<"failed", {}>>}

NarrativeRun(s, o, n) ==
    LET s0 == Log(s, "NarrativeAgent -> generate structured sections via Gemini")
        kind == o[1]
        S == o[2]
        incomplete(t) == Err(t, "Narrative sections incomplete after retries")
        failed(t) == Err(t, "Narrative generation failed")
    IN  CASE kind = "unconfigured" ->
               [Log(s, "NarrativeAgent -> skipped (Gemini client not configured)")
                EXCEPT !.sections =
                    [k \in DOMAIN @ |->
                        IF @[k].set THEN @[k] ELSE Plain(PlaceholderLen, 0)]]
          [] kind = "ok" ->
               [s0 EXCEPT !.sections = [k \in DOMAIN @ |-> Plain(LongLen, n)]]
          [] kind = "short" ->
               [s0 EXCEPT !.sections =
                    [k \in DOMAIN @ |->
                        IF k \in S THEN Plain(ShortLen, n) ELSE Plain(LongLen, n)]]
          [] OTHER ->
               [incomplete(failed(failed(failed(s0)))) EXCEPT !.sections =
                    [k \in DOMAIN @ |-> Plain(FallbackLen, 0)]]

\* risk.run
RiskOutcomes == IF gemini THEN {"ok", "failed"} ELSE {"unconfigured"}
RiskFaults == {"failed"}

RiskRun(s, o, n) ==
    LET s0 == Log(s, "RiskCatalystAgent -> request qualitative analysis from Gemini")
    IN  CASE o = "unconfigured" ->
               [Log(s, "RiskCatalystAgent -> skipped (Gemini client not configured)")
                EXCEPT !.risk_catalyst = Plain(PlaceholderLen, 0)]
          [] o = "ok" -> [s0 EXCEPT !.risk_catalyst = Plain(LongLen, n)]
          [] OTHER -> Err(s0, "Risk catalyst generation failed")

\* reviewer.run
ReviewerOutcomes == IF gemini THEN {"ok", "failed"} ELSE {"unconfigured"}
ReviewerFaults == {"failed"}

ReviewerRun(s, o, n) ==
    LET s0 == Log(s, "ReviewerAgent -> cross-check narratives vs data")
    IN  CASE o = "unconfigured" ->
               Log(s, "ReviewerAgent -> skipped (Gemini not configured)")
          [] o = "ok" -> [s0 EXCEPT !.review_report = Plain(LongLen, n)]
          [] OTHER -> Err(s0, "Reviewer failed")

\* chart_builder.run
ChartBuilderOutcomes == {"ok", "failed", "raise"}
ChartBuilderFaults == {"failed", "raise"}
ChartBuilderRaises == {"raise"}

ChartBuilderRun(s, o, n) ==
    CASE o = "ok" -> Log(s, "ChartBuilder -> saved chart")
      [] o = "failed" -> Err(s, "ChartBuilder save failed")
      [] OTHER -> s

\* writing.run: the keys of render_context when _build_footnotes is called
RenderContextKeys ==
    {"ticker", "company_name", "report_date", "report_timestamp",
     "core_viewpoints", "rating_text", "company_intro", "industry_analysis",
     "growth_analysis", "financial_analysis", "valuation_analysis",
     "risk_catalyst", "anomalies"}

\* render_context.get("review_report") in the argument of _build_footnotes
FootnoteReviewInput(s) ==
    IF "review_report" \in RenderContextKeys THEN s.review_report ELSE NoText

\* str(text): str(None) is the text "None"
Str(t) == IF t.set THEN t ELSE Plain(4, 0)

\* _clean_text_block(_strip_urls(text)): URLs, Map/Reduce words and markdown
\* emphasis are removed; the content stays that of the text it was given.
CleanTextBlock(t) ==
    IF ~Truthy(t) THEN t
    ELSE [t EXCEPT !.map = FALSE, !.reduce = FALSE, !.cite = FALSE]

\* render_context["review_report"] = cleaned_texts.get("review_report", ...)
RenderedReview(s) == CleanTextBlock(Str(FootnoteReviewInput(s)))

WritingOutcomes == {"ok", "failed"}
WritingFaults == {"failed"}

WritingRun(s, o, n) ==
    LET s0 == Log(s, "WritingAgent -> render Markdown output")
    IN  IF o = "ok"
        THEN [s0 EXCEPT !.markdown_report =
                 [set |-> TRUE, qa_report |-> s.qa_report,
                  review_report |-> RenderedReview(s)]]
        ELSE Err(s0, "Markdown render failed")

QaOutcomes == {"ok"}
QaHandler(s, o, n) == QaRun(s)

\* --------------------------------------------- ReportWorkflow (graph.py)
NewsChain ==
    <<"news_fetch_mapreduce", "qual_research", "narrative", "reviewer",
      "writing", "qa">>
\* variant: qa called before writing
ValuationChainQaFirst == <<"valuation", "narrative", "reviewer", "qa", "writing">>
ValuationChain == <<"valuation", "narrative", "reviewer", "writing", "qa">>
NarrativeChain == <<"narrative", "reviewer", "writing", "qa">>

Wants(rewrite_requests, action) ==
    \E i \in 1..Len(rewrite_requests) :
        rewrite_requests[i].suggested_action = action

\* variant: the valuation chain retried once more when it was requested
RerunPlanRetrying(rewrite_requests) ==
    LET wants_narrative_rerun == Wants(rewrite_requests, "rerun_narrative_node")
        wants_valuation_rerun == Wants(rewrite_requests, "rerun_valuation_node")
        wants_news_rerun == Wants(rewrite_requests, "rerun_news_node")
        valuation_rerun == IF wants_valuation_rerun
                           THEN <<"PostRun:valuation">> \o ValuationChain ELSE <<>>
    IN  (IF wants_news_rerun THEN <<"PostRun:news">> \o NewsChain ELSE <<>>)
        \o valuation_rerun \o valuation_rerun
        \o (IF wants_narrative_rerun /\ ~wants_valuation_rerun
            THEN <<"PostRun:narrative">> \o NarrativeChain ELSE <<>>)
        \o <<"PostRun:render", "return">>

\* _apply_rerun_hooks: the three flags are computed once, on entry, and the
\* calls that follow are fixed by them.
RerunPlan(rewrite_requests) ==
    LET wants_narrative_rerun == Wants(rewrite_requests, "rerun_narrative_node")
        wants_valuation_rerun == Wants(rewrite_requests, "rerun_valuation_node")
        wants_news_rerun == Wants(rewrite_requests, "rerun_news_node")
    IN  (IF wants_news_rerun THEN <<"PostRun:news">> \o NewsChain ELSE <<>>)
        \o (IF wants_valuation_rerun
            THEN <<"PostRun:valuation">> \o ValuationChain ELSE <<>>)
        \o (IF wants_narrative_rerun /\ ~wants_valuation_rerun
            THEN <<"PostRun:narrative">> \o NarrativeChain ELSE <<>>)
        \o <<"PostRun:render", "return">>

PostRunMarks == {"PostRun:news", "PostRun:valuation", "PostRun:narrative"}

\* ----------------------------------------------------------------- actions
\* One handler call: the wrapper of _wrap calls the handler and lets
\* whatever it raises propagate.
Invoke(key, outs, Run(_, _, _), faultOuts, raiseOuts) ==
    /\ pc = "running" /\ queue # <<>> /\ Head(queue) = key
    /\ trace' = Append(trace, key)
    /\ UNCHANGED <<gemini, tushare>>
    /\ \E o \in outs :
         /\ (o \in faultOuts => faults < MaxFaults)
         /\ faults' = IF o \in faultOuts THEN faults + 1 ELSE faults
         /\ state' = Run(state, o, Len(trace) + 1)
         /\ IF o \in raiseOuts
            THEN queue' = <<>> /\ pc' = "raised"
            ELSE queue' = Tail(queue) /\ pc' = pc

DataLoad ==
    Invoke("ingest_financials", DataLoadOutcomes, DataLoadRun,
           DataLoadFaults, DataLoadRaises)
PriceEnrich ==
    Invoke("enrich_market", PriceEnrichOutcomes, PriceEnrichRun,
           PriceEnrichFaults, PriceEnrichRaises)
QuantMetrics ==
    Invoke("quant_metrics", QuantMetricsOutcomes, QuantMetricsRun,
           QuantMetricsFaults, {})
News ==
    Invoke("news_fetch_mapreduce", NewsOutcomes, NewsRun, NewsFaults, {})
QualResearch ==
    Invoke("qual_research", QualResearchOutcomes, QualResearchRun,
           QualResearchFaults, {})
Valuation ==
    Invoke("valuation", ValuationOutcomes, ValuationRun, {}, {})
Narrative ==
    Invoke("narrative", NarrativeOutcomes, NarrativeRun, NarrativeFaults, {})
Risk == Invoke("risk", RiskOutcomes, RiskRun, RiskFaults, {})
Reviewer ==
    Invoke("reviewer", ReviewerOutcomes, ReviewerRun, ReviewerFaults, {})
ChartBuilder ==
    Invoke("chart_builder", ChartBuilderOutcomes, ChartBuilderRun,
           ChartBuilderFaults, ChartBuilderRaises)
Writing ==
    Invoke("writing", WritingOutcomes, WritingRun, WritingFaults, {})
Qa == Invoke("qa", QaOutcomes, QaHandler, {}, {})

\* _apply_rerun_hooks, entry: read rewrite_requests and fix the reruns
ApplyRerunHooks ==
    /\ pc = "running" /\ queue # <<>> /\ Head(queue) = "hooks"
    /\ queue' = RerunPlan(state.rewrite_requests)
    /\ UNCHANGED <<gemini, tushare, state, pc, trace, faults>>

PostRunLog(mark) ==
    CASE mark = "PostRun:news" ->
           "PostRun -> rerunning news/qual/narrative/reviewer/writing/qa"
      [] mark = "PostRun:valuation" ->
           "PostRun -> rerunning valuation/narrative/reviewer/writing/qa"
      [] OTHER -> "PostRun -> rerunning narrative/reviewer/writing/qa"

\* _apply_rerun_hooks: the logs.append that opens a rerun chain
PostRun ==
    /\ pc = "running" /\ queue # <<>> /\ Head(queue) \in PostRunMarks
    /\ state' = Log(state, PostRunLog(Head(queue)))
    /\ trace' = Append(trace, Head(queue))
    /\ queue' = Tail(queue)
    /\ UNCHANGED <<gemini, tushare, pc, faults>>

\* _apply_rerun_hooks: `if state.get("qa_report") or state.get("review_report")`
Rerender ==
    /\ pc = "running" /\ queue # <<>> /\ Head(queue) = "PostRun:render"
    /\ IF state.qa_report.set \/ Truthy(state.review_report)
       THEN /\ state' = Log(state, "PostRun -> re-rendering Markdown")
            /\ trace' = Append(trace, "PostRun:render")
            /\ queue' = <<"writing">> \o Tail(queue)
       ELSE /\ queue' = Tail(queue)
            /\ UNCHANGED <<state, trace>>
    /\ UNCHANGED <<gemini, tushare, pc, faults>>

\* ReportWorkflow.run: `return result`
Return ==
    /\ pc = "running" /\ queue # <<>> /\ Head(queue) = "return"
    /\ pc' = "done"
    /\ queue' = <<>>
    /\ UNCHANGED <<gemini, tushare, state, trace, faults>>

\* ReportWorkflow.__init__ and the start of run
Init ==
    /\ gemini \in BOOLEAN
    /\ tushare \in BOOLEAN
    /\ state = InitialState
    /\ queue = StageOrder \o <<"hooks">>
    /\ pc = "running"
    /\ trace = <<>>
    /\ faults = 0

\* The steps from the QA stage of the base pass to the end of the run
NextFromQA ==
    \/ News \/ QualResearch \/ Valuation \/ Narrative \/ Reviewer
    \/ Writing \/ Qa
    \/ ApplyRerunHooks \/ PostRun \/ Rerender \/ Return

Next ==
    \/ DataLoad \/ PriceEnrich \/ QuantMetrics \/ Risk \/ ChartBuilder
    \/ NextFromQA

Spec == Init /\ [][Next]_vars

\* ------------------------------------------- the run resumed at the QA stage
\* qa.run and _apply_rerun_hooks take whatever state the earlier stages
\* left.  SpecFromQA starts the run at the QA stage of the base pass with
\* the state fields these two read drawn from the sets below.
QaValuationInputs ==
    \* <<valuation, ratios["eps"], current_price>>
    {<<[set |-> TRUE, methods |-> {"pe_band"}, intrinsic |-> Num(20)], e, p>> :
        e \in {NoneNum, NaNNum, Num(-1), Num(0), Num(1)},
        p \in {NoneNum, Num(-1), Num(0), Num(15)}}
    \cup {<<NoValuation, Num(1), Num(15)>>,
          <<[set |-> TRUE, methods |-> {}, intrinsic |-> NoneNum], Num(1), Num(15)>>,
          <<[set |-> TRUE, methods |-> {"dcf"}, intrinsic |-> Num(-5)], Num(1), Num(15)>>,
          <<[set |-> TRUE, methods |-> {"dcf", "pe_band", "ev_ebitda"},
             intrinsic |-> Num(20)], Num(1), Num(15)>>}

QaNewsInputs ==
    {NoText, Text(LongLen, TRUE, TRUE, FALSE, TRUE, 0),
     Text(LongLen, TRUE, FALSE, FALSE, TRUE, 0)}

QaSectionInputs ==
    LET all == [k \in Range(NARRATIVE_KEYS) |-> Plain(LongLen, 0)]
    IN  {all,
         [all EXCEPT !["core_viewpoints"] = Plain(ShortLen, 0)],
         [all EXCEPT !["company_intro"] = Plain(ShortLen, 0)],
         [all EXCEPT !["growth_analysis"] = NoText,
                     !["financial_analysis"] = Plain(0, 0)]}

\* what an earlier QA pass may have left in the lists
QaPriorInputs ==
    {<<(<<>>), (<<>>)>>,
     <<(<<"TuShare fetch failed", QA_VALUATION_EMPTY, "Reviewer failed">>),
       (<<Request("news_fetch_mapreduce", W_NEWS, <<>>, "rerun_news_node"),
          Request("valuation", "valuation empty", <<>>, "rerun_valuation_node")>>)>>}

QaInputStates ==
    {[InitialState EXCEPT
         !.errors = prior[1],
         !.rewrite_requests = prior[2],
         !.financials = "cached",
         !.price_history = TRUE,
         !.anomalies = TRUE,
         !.valuation = v[1],
         !.ratios = [set |-> TRUE, eps |-> v[2]],
         !.current_price = v[3],
         !.news_digest = d,
         !.qual_notes = Plain(LongLen, 0),
         !.risk_catalyst = Plain(LongLen, 0),
         !.sections = sec,
         !.markdown_report =
             [set |-> TRUE, qa_report |-> NoReport,
              review_report |-> Plain(4, 0)]] :
        v \in QaValuationInputs, d \in QaNewsInputs, sec \in QaSectionInputs,
        prior \in QaPriorInputs}

InitFromQA ==
    /\ gemini \in BOOLEAN
    /\ tushare = FALSE
    /\ state \in QaInputStates
    /\ queue = <<"qa", "hooks">>
    /\ pc = "running"
    /\ trace = <<>>
    /\ faults = 0

SpecFromQA == InitFromQA /\ [][NextFromQA]_vars

\* qa.run called twice in succession on the same state, as the rerun
\* policy does when a chain ends in "qa" and nothing in between changed
\* what qa reads
InitQaTwice ==
    /\ gemini \in BOOLEAN
    /\ tushare = FALSE
    /\ state \in QaInputStates
    /\ queue = <<"qa", "qa">>
    /\ pc = "running"
    /\ trace = <<>>
    /\ faults = 0
NextQaTwice == Qa
SpecQaTwice == InitQaTwice /\ [][NextQaTwice]_vars

\* ------------------------------------------------- the news digest as text
\* A digest is a sequence of lines, each line one of the kinds the regular
\* expressions of news._normalize_news_digest tell apart:
\*   thinking  "*Thinking...*"          quote     "> ..."
\*   ok        "ok ..." / "好的 ..."     blank     an empty line
\*   h_map     "### Map"                h_reduce  "### Reduce"
\*   c_map     "Map: ..."               c_reduce  "Reduce: ..."
\*   b_map     "**Map**"                b_reduce  "**Reduce**"
\*   item      "- [date][source][mood] event (http://...)"
MaxLines == 3
LineKinds ==
    {"thinking", "quote", "ok", "blank", "h_map", "c_map", "b_map",
     "h_reduce", "c_reduce", "b_reduce", "item"}
\* the raw texts of n lines
RawDigests(n) == [1..n -> LineKinds]

\* str.strip() on a text of lines
StripLines(t) ==
    LET I == {i \in 1..Len(t) : t[i] # "blank"}
    IN  IF I = {} THEN <<>>
        ELSE SubSeq(t, CHOOSE i \in I : \A j \in I : i <= j,
                       CHOOSE i \in I : \A j \in I : j <= i)

\* re.sub(r"(?is)^\s*\*?Thinking\.\.\.\*?.*?(?:\n{2,}|$)", "", cleaned):
\* a leading Thinking line goes, with everything up to and including the
\* first run of empty lines, or with everything when there is none
DropThinking(t) ==
    IF t = <<>> \/ t[1] # "thinking" THEN t
    ELSE LET B == {i \in 1..Len(t) : t[i] = "blank"}
         IN  IF B = {} THEN <<>>
             ELSE LET j == CHOOSE i \in B : \A k \in B : i <= k
                      E == {i \in j..Len(t) :
                               /\ \A k \in j..i : t[k] = "blank"
                               /\ (i = Len(t) \/ t[i + 1] # "blank")}
                      e == CHOOSE i \in E : TRUE
                  IN  SubSeq(t, e + 1, Len(t))

\* re.sub(r"(?im)^>.*\n", "", cleaned): every quoted line that ends with a
\* newline goes (a quoted last line stays)
RECURSIVE DropQuotes(_)
DropQuotes(t) ==
    IF Len(t) <= 1 THEN t
    ELSE IF Head(t) = "quote" THEN DropQuotes(Tail(t))
    ELSE <<Head(t)>> \o DropQuotes(Tail(t))

\* re.sub(r"(?is)^(ok|okay|好的|行的)[^\n]*\n?", "", cleaned)
DropOk(t) == IF t # <<>> /\ t[1] = "ok" THEN Tail(t) ELSE t

\* re.sub(r"(?im)^\s*<header>", "**Map**", cleaned, count=1): the first line
\* of kind `from` becomes `to`; the \s* of the pattern takes the empty
\* lines right before it
ReplaceFirst(t, from, to) ==
    LET I == {i \in 1..Len(t) : t[i] = from}
    IN  IF I = {} THEN t
        ELSE LET i == CHOOSE k \in I : \A j \in I : k <= j
                 P == {k \in 0..(i - 1) :
                          /\ \A j \in (k + 1)..(i - 1) : t[j] = "blank"
                          /\ (k = 0 \/ t[k] # "blank")}
                 p == CHOOSE k \in P : TRUE
             IN  SubSeq(t, 1, p) \o <<to>> \o SubSeq(t, i + 1, Len(t))

\* re.sub(r"(?is)^.*?(\*\*Map\*\*)", r"**Map**", cleaned, count=1)
DropLeadIn(t) ==
    LET I == {i \in 1..Len(t) : t[i] = "b_map"}
    IN  IF I = {} THEN t
        ELSE SubSeq(t, CHOOSE k \in I : \A j \in I : k <= j, Len(t))

\* re.sub(r"\n{3,}", "\n\n", cleaned)
RECURSIVE CollapseBlank(_)
CollapseBlank(t) ==
    IF Len(t) <= 1 THEN t
    ELSE IF t[1] = "blank" /\ t[2] = "blank" THEN CollapseBlank(Tail(t))
    ELSE <<Head(t)>> \o CollapseBlank(Tail(t))

\* news._normalize_news_digest
NormalizeNewsDigest(text) ==
    IF text = <<>> THEN <<>>
    ELSE LET c0 == StripLines(text)
             c1 == DropThinking(c0)
             c2 == DropQuotes(c1)
             c3 == DropOk(c2)
             c4 == ReplaceFirst(c3, "h_map", "b_map")
             c5 == ReplaceFirst(c4, "c_map", "b_map")
             c6 == ReplaceFirst(c5, "h_reduce", "b_reduce")
             c7 == ReplaceFirst(c6, "c_reduce", "b_reduce")
             c8 == DropLeadIn(c7)
             c9 == CollapseBlank(c8)
         IN  StripLines(c9)

\* news._valid_news_digest
ValidNewsDigestText(text) ==
    LET normalized == NormalizeNewsDigest(text)
    IN  /\ normalized # <<>>
        /\ "thinking" \notin Range(normalized)
        /\ "b_map" \in Range(normalized)
        /\ "b_reduce" \in Range(normalized)

\* characters of a non-empty line
LineLen == 40
\* the stored text as qa.run sees it: its length, what _valid_news_digest
\* finds in it after normalizing it once more, and whether it cites a URL
DigestOf(text) ==
    LET normalized == NormalizeNewsDigest(text)
    IN  Text(LineLen * Cardinality({i \in 1..Len(text) : text[i] # "blank"}),
             "b_map" \in Range(normalized), "b_reduce" \in Range(normalized),
             "thinking" \in Range(normalized), "item" \in Range(text), 0)

\* news.run with a configured client that answers state.news_raw on every
\* attempt (o = "answered") or whose first call raises (o = "failed")
NewsTextOutcomes == {"answered", "failed"}
NewsTextRun(s, o) ==
    LET s0 == Log(s, "NewsSentimentAgent -> fetch and summarize latest public news")
        retry(t) == Log(t, "NewsSentimentAgent -> output invalid format, retrying")
        cleaned == NormalizeNewsDigest(s.news_raw)
        stored == [s0 EXCEPT !.news_lines = cleaned, !.news_digest = DigestOf(cleaned)]
    IN  IF o = "failed" THEN Err(s0, "News summarization failed")
        ELSE IF ValidNewsDigestText(cleaned)
             THEN stored
             ELSE LET s1 == retry(retry(stored))
                  IN  Err(s1, "News summarization returned invalid Map/Reduce format after retries.")

NewsText ==
    /\ pc = "running" /\ queue # <<>> /\ Head(queue) = "news_text"
    /\ \E o \in NewsTextOutcomes : state' = NewsTextRun(state, o)
    /\ trace' = Append(trace, "news_fetch_mapreduce")
    /\ queue' = Tail(queue)
    /\ UNCHANGED <<gemini, tushare, pc, faults>>

\* news.run followed by qa.run, for every answer of the client of at most
\* MaxLines lines
InitNewsQA ==
    /\ gemini = TRUE
    /\ tushare = FALSE
    /\ \E n \in 0..MaxLines : \E raw \in RawDigests(n) :
          state = [news_raw |-> raw, news_lines |-> <<>>] @@ InitialState
    /\ queue = <<"news_text", "qa">>
    /\ pc = "running"
    /\ trace = <<>>
    /\ faults = 0

NextNewsQA == NewsText \/ Qa

SpecNewsQA == InitNewsQA /\ [][NextNewsQA]_vars


\* ------------------------------------------- one statement per period
\* A FinancialStatement as the three copies of the dedup read it: period
\* (year * 100 + month), update_flag and announced_date (both Optional), and
\* row, which stands for the rest of the statement (its metrics).
MaxStatements == 3
Periods == {202312, 202403}
UpdateFlags == {NoneNum, Num(0), Num(1)}
AnnouncedDates == {NoneNum, Num(1), Num(2)}
NoStatement ==
    [period |-> 0, update_flag |-> NoneNum, announced_date |-> NoneNum, row |-> 0]
\* the statement list whose i-th statement has the fields f[i]
StatementList(f) ==
    [i \in 1..Len(f) |-> [period |-> f[i][1], update_flag |-> f[i][2],
                          announced_date |-> f[i][3], row |-> i]]
StatementFields(n) == [1..n -> Periods \X UpdateFlags \X AnnouncedDates]

\* calculations._flag_value, and `update_flag or 0` of the other two copies
FlagValue(flag) == IF flag.kind = "num" THEN flag.v ELSE 0
\* datetime.min.date()
MinDate == 0

\* calculations._dedup_statements, the comparison with the statement kept
\* so far: getattr's default is not used for an attribute that is None, and
\* `ann >= prev_ann` with a None operand raises TypeError
EngineCompare(st, prev) ==
    LET flag == FlagValue(st.update_flag)
        prev_flag == FlagValue(prev.update_flag)
    IN  IF flag > prev_flag THEN "replace"
        ELSE IF flag # prev_flag THEN "keep"
        ELSE IF st.announced_date.kind # "num" \/ prev.announced_date.kind # "num"
             THEN "raise"
        ELSE IF st.announced_date.v >= prev.announced_date.v THEN "replace"
        ELSE "keep"

\* data_load._dedup_statements: `announced_date or datetime.min.date()`
LoaderCompare(st, prev) ==
    LET flag == FlagValue(st.update_flag)
        prev_flag == FlagValue(prev.update_flag)
        ann == IF st.announced_date.kind = "num" THEN st.announced_date.v ELSE MinDate
        prev_ann == IF prev.announced_date.kind = "num"
                    THEN prev.announced_date.v ELSE MinDate
    IN  IF flag > prev_flag \/ (flag = prev_flag /\ ann >= prev_ann)
        THEN "replace" ELSE "keep"

\* chart_builder._clean_statements: `ann and prev_ann and ann >= prev_ann`
ChartCompare(st, prev) ==
    LET flag == FlagValue(st.update_flag)
        prev_flag == FlagValue(prev.update_flag)
    IN  IF \/ flag > prev_flag
           \/ /\ flag = prev_flag
              /\ st.announced_date.kind = "num" /\ prev.announced_date.kind = "num"
              /\ st.announced_date.v >= prev.announced_date.v
        THEN "replace" ELSE "keep"

Compare(site, st, prev) ==
    CASE site = "engine" -> EngineCompare(st, prev)
      [] site = "loader" -> LoaderCompare(st, prev)
      [] OTHER -> ChartCompare(st, prev)

\* the loop over the statements: best maps a period to the statement kept
RECURSIVE BestByPeriod(_, _, _, _)
BestByPeriod(site, statements, i, best) ==
    IF i > Len(statements) THEN [raised |-> FALSE, best |-> best]
    ELSE LET st == statements[i]
             prev == best[st.period]
         IN  IF prev = NoStatement
             THEN BestByPeriod(site, statements, i + 1,
                               [best EXCEPT ![st.period] = st])
             ELSE LET c == Compare(site, st, prev)
                  IN  IF c = "raise" THEN [raised |-> TRUE, best |-> best]
                      ELSE BestByPeriod(site, statements, i + 1,
                               IF c = "replace"
                               THEN [best EXCEPT ![st.period] = st] ELSE best)

\* sorted(best.values(), key=period)
SortedByPeriod(best) ==
    LET ps == {q \in Periods : best[q] # NoStatement}
        order == CHOOSE f \in [1..Cardinality(ps) -> ps] :
                     \A i, j \in 1..Cardinality(ps) : i < j => f[i] < f[j]
    IN  [i \in 1..Cardinality(ps) |-> best[order[i]]]

\* chart_builder._clean_statements: the December periods when there are any
AnnualIfAny(cleaned) ==
    LET annual == SelectSeq(cleaned, LAMBDA st : st.period % 100 = 12)
    IN  IF annual # <<>> THEN annual ELSE cleaned

\* the three functions; raised: the call ended in an exception
NotCalled == [called |-> FALSE, raised |-> FALSE, value |-> <<>>]
Dedup(site, statements) ==
    LET r == BestByPeriod(site, statements, 1, [q \in Periods |-> NoStatement])
    IN  IF r.raised THEN [called |-> TRUE, raised |-> TRUE, value |-> <<>>]
        ELSE [called |-> TRUE, raised |-> FALSE,
              value |-> IF site = "chart" THEN AnnualIfAny(SortedByPeriod(r.best))
                        ELSE SortedByPeriod(r.best)]

EngineDedup ==
    /\ pc = "running" /\ queue # <<>> /\ Head(queue) = "engine_dedup"
    /\ state' = [state EXCEPT !.engine = Dedup("engine", state.statements)]
    /\ trace' = Append(trace, "engine_dedup")
    /\ queue' = Tail(queue)
    /\ UNCHANGED <<gemini, tushare, pc, faults>>
LoaderDedup ==
    /\ pc = "running" /\ queue # <<>> /\ Head(queue) = "loader_dedup"
    /\ state' = [state EXCEPT !.loader = Dedup("loader", state.statements)]
    /\ trace' = Append(trace, "loader_dedup")
    /\ queue' = Tail(queue)
    /\ UNCHANGED <<gemini, tushare, pc, faults>>
CleanStatements ==
    /\ pc = "running" /\ queue # <<>> /\ Head(queue) = "clean_statements"
    /\ state' = [state EXCEPT !.chart = Dedup("chart", state.statements)]
    /\ trace' = Append(trace, "clean_statements")
    /\ queue' = Tail(queue)
    /\ UNCHANGED <<gemini, tushare, pc, faults>>

\* the three functions applied to every list of at most MaxStatements
\* statements
InitDedup ==
    /\ gemini = FALSE
    /\ tushare = FALSE
    /\ \E n \in 0..MaxStatements : \E f \in StatementFields(n) :
          state = [statements |-> StatementList(f), engine |-> NotCalled,
                   loader |-> NotCalled, chart |-> NotCalled]
    /\ queue = <<"engine_dedup", "loader_dedup", "clean_statements">>
    /\ pc = "running"
    /\ trace = <<>>
    /\ faults = 0

NextDedup == EngineDedup \/ LoaderDedup \/ CleanStatements

SpecDedup == InitDedup /\ [][NextDedup]_vars

\* ------------------------------------------------------- ValuationEngine
\* Floats are fixed-point integers: amounts (net income, debt, cash, FCF ...)
\* and shares in units, per-share values (price, EPS, fair values) in
\* hundredths, rates (wacc, g, terminal_growth, net_margin, debt_to_equity)
\* in basis points, multiples (pe_low ...) in hundredths, forecast_years in
\* tenths.  NaNNum is float("nan"); None becomes NaN through _to_float.
IsNaN(x) == x.kind # "num"
Min2(a, b) == IF a <= b THEN a ELSE b
Max2(a, b) == IF a >= b THEN a ELSE b
Clamp(x, lo, hi) == Min2(Max2(x, lo), hi)

DcfKeys == {"wacc", "g", "terminal_growth", "forecast_years"}
Bands == {"pe", "ev_ebitda", "pb", "ev_sales"}
BandKeys ==
    {"pe_low", "pe_high", "ev_ebitda_low", "ev_ebitda_high",
     "pb_low", "pb_high", "ev_sales_low", "ev_sales_high"}
AssumptionKeys == DcfKeys \cup BandKeys
Low(band) == band \o "_low"
High(band) == band \o "_high"
NoAssumptions == [k \in AssumptionKeys |-> NaNNum]

\* ValuationEngine._derive_assumptions
DeriveAssumptions(net_margin, debt_to_equity, revenue_cagr, rev_vol) ==
    LET lev == IF IsNaN(debt_to_equity) THEN 0
               ELSE IF debt_to_equity.v > 15000 THEN 150
               ELSE IF debt_to_equity.v > 8000 THEN 80
               ELSE IF debt_to_equity.v < 4000 THEN -50
               ELSE 0
        prof == IF IsNaN(net_margin) THEN 0
                ELSE IF net_margin.v < 0 THEN 100
                ELSE IF net_margin.v > 1500 THEN -50
                ELSE 0
        wacc == Clamp(900 + lev + prof, 700, 1500)
        growth_base == IF IsNaN(revenue_cagr) THEN 500 ELSE revenue_cagr.v
        vol_haircut == IF IsNaN(rev_vol) THEN 0 ELSE Clamp(rev_vol.v, 0, 1000)
        growth == Clamp(growth_base - (vol_haircut * 3) \div 10, -300, 1200)
        terminal_growth == Clamp(growth \div 2, 100, 300)
        tier == IF IsNaN(net_margin) THEN <<1000, 2000, 600, 1200, 80, 140, 100, 200>>
                ELSE IF net_margin.v <= 0 THEN <<800, 1400, 500, 900, 40, 90, 20, 80>>
                ELSE IF net_margin.v < 500 THEN <<900, 1700, 600, 1000, 70, 120, 80, 160>>
                ELSE IF net_margin.v < 1500
                     THEN <<1100, 1900, 700, 1100, 80, 140, 100, 200>>
                ELSE <<1200, 2200, 700, 1200, 120, 220, 150, 300>>
    IN  [k \in AssumptionKeys |->
            CASE k = "wacc" -> wacc
              [] k = "g" -> growth
              [] k = "terminal_growth" -> terminal_growth
              [] k = "forecast_years" -> 50
              [] k = "pe_low" -> tier[1]
              [] k = "pe_high" -> tier[2]
              [] k = "ev_ebitda_low" -> tier[3]
              [] k = "ev_ebitda_high" -> tier[4]
              [] k = "pb_low" -> tier[5]
              [] k = "pb_high" -> tier[6]
              [] k = "ev_sales_low" -> tier[7]
              [] OTHER -> tier[8]]

\* ValuationEngine.run, pick_assumption: override, else hint, else the
\* dataset's value, else the default
PickAssumption(key, overrides, hints, dataset_value, default_value) ==
    IF ~IsNaN(overrides[key]) THEN overrides[key].v
    ELSE IF ~IsNaN(hints[key]) THEN hints[key].v
    ELSE IF ~IsNaN(dataset_value) THEN dataset_value.v
    ELSE default_value

\* round() of Python on a value in tenths (ties go to the even integer)
RoundTenths(t) ==
    LET q == t \div 10
        r == t % 10
    IN  IF r < 5 THEN q
        ELSE IF r > 5 THEN q + 1
        ELSE IF q % 2 = 0 THEN q ELSE q + 1

\* the band a relative method uses: the picked pair, or the fallback pair
\* when the picked pair is not 0 < low < high
\* (10.0/20.0 and 6.0/12.0 are literals; PB and EV/Sales fall back to the
\* derived defaults)
BandFallback(band, defaults) ==
    CASE band = "pe" -> <<1000, 2000>>
      [] band = "ev_ebitda" -> <<600, 1200>>
      [] OTHER -> <<defaults[Low(band)], defaults[High(band)]>>
BandUsed(band, overrides, hints, defaults) ==
    LET low == PickAssumption(Low(band), overrides, hints, NaNNum, defaults[Low(band)])
        high == PickAssumption(High(band), overrides, hints, NaNNum, defaults[High(band)])
    IN  IF low <= 0 \/ high <= 0 \/ low >= high
        THEN BandFallback(band, defaults)
        ELSE <<low, high>>

\* calculations._dcf_fcff: <<equity_value, per_share>>, both in hundredths.
\* DiscountedFlows adds up cash_flows[t] / discounts[t] for t = 1..years and
\* hands back the sum and the last discounted flow.
RECURSIVE DiscountedFlows(_, _, _, _, _)
DiscountedFlows(flow, growth, wacc, years, sum) ==
    IF years = 0 THEN <<sum, flow>>
    ELSE LET next == (flow * (10000 + growth)) \div (10000 + wacc)
         IN  DiscountedFlows(next, growth, wacc, years - 1, sum + next)
DcfFcffUndiscounted(fcf, growth, wacc, terminal_growth, years, net_debt, shares) ==
    IF years <= 0 \/ wacc <= terminal_growth THEN <<NaNNum, NaNNum>>
    ELSE LET pv == DiscountedFlows(fcf * 100, growth, 0, years, 0)
             equity_value == pv[1] + pv[2]
                                 - (IF IsNaN(net_debt) THEN 0 ELSE net_debt.v * 100)
         IN  <<Num(equity_value),
               IF shares > 0 THEN Num(equity_value \div shares) ELSE NaNNum>>
DcfFcff(fcf, growth, wacc, terminal_growth, years, net_debt, shares) ==
    IF years <= 0 \/ wacc <= terminal_growth THEN <<NaNNum, NaNNum>>
    ELSE LET pv == DiscountedFlows(fcf * 100, growth, wacc, years, 0)
             pv_terminal == (pv[2] * (10000 + terminal_growth))
                                \div (wacc - terminal_growth)
             enterprise_value == pv[1] + pv_terminal
             equity_value == enterprise_value
                                 - (IF IsNaN(net_debt) THEN 0 ELSE net_debt.v * 100)
         IN  <<Num(equity_value),
               IF shares > 0 THEN Num(equity_value \div shares) ELSE NaNNum>>

\* one entry of valuation_methods.  upside is NoneNum when the key is not
\* set; low/high are the multiples of a relative method, wacc/g/gt/years
\* the parameters of the DCF, sens its four sensitivity values
\* (wacc - 2pp, wacc + 2pp, g - 1pp, g + 1pp; NoneNum when not computed).
MethodNames == {"dcf", "pe_band", "ev_ebitda", "pb_band", "ev_sales"}
RelativeMethod(band) ==
    CASE band = "pe" -> "pe_band"
      [] band = "pb" -> "pb_band"
      [] OTHER -> band
AbsentMethod ==
    [present |-> FALSE, fair_value |-> NaNNum, upside |-> NoneNum,
     low |-> 0, high |-> 0, wacc |-> 0, g |-> 0, gt |-> 0, years |-> 0,
     sens |-> <<NoneNum, NoneNum, NoneNum, NoneNum>>]
\* (fair_value / price) - 1.0, in basis points
Upside(fair_value, price) ==
    IF IsNaN(fair_value) \/ price <= 0 THEN NaNNum
    ELSE Num((fair_value.v * 10000) \div price - 10000)

W_SHARES == "shares_outstanding missing or invalid"
W_EPS == "EPS/net income negative or missing"

\* the facts ValuationEngine.run reads from the dataset
EngineFacts(vin) ==
    LET shares == vin.shares
        eps == IF ~IsNaN(vin.net_income) /\ ~IsNaN(shares) /\ shares.v # 0
               THEN Num((vin.net_income.v * 100) \div shares.v) ELSE NaNNum
        both_missing == IsNaN(vin.st_debt) /\ IsNaN(vin.lt_debt)
        total_debt == IF both_missing THEN NaNNum
                      ELSE Num((IF IsNaN(vin.st_debt) THEN 0 ELSE vin.st_debt.v)
                               + (IF IsNaN(vin.lt_debt) THEN 0 ELSE vin.lt_debt.v))
        net_debt == IF ~IsNaN(total_debt) /\ ~IsNaN(vin.cash)
                    THEN Num(Max2(total_debt.v - vin.cash.v, 0)) ELSE NaNNum
        fcf == IF ~IsNaN(vin.fcf) THEN vin.fcf
               ELSE IF ~IsNaN(vin.ocf) /\ ~IsNaN(vin.capex)
                    THEN Num(vin.ocf.v - vin.capex.v)
               ELSE NaNNum
        book_per_share ==
            IF ~IsNaN(vin.total_equity) /\ ~IsNaN(shares) /\ shares.v # 0
            THEN Num((vin.total_equity.v * 100) \div shares.v) ELSE NaNNum
    IN  [eps |-> eps, net_debt |-> net_debt, fcf |-> fcf,
         book_per_share |-> book_per_share]

\* ValuationEngine.run, the DCF block
DcfMethod(vin, facts, wacc, growth, terminal_growth, n_years) ==
    IF IsNaN(facts.fcf) \/ IsNaN(facts.net_debt) \/ IsNaN(vin.shares)
       \/ vin.shares.v = 0
    THEN AbsentMethod
    ELSE LET PerShare(w, gr) ==
                 DcfFcff(facts.fcf.v, gr, w, terminal_growth, n_years,
                         facts.net_debt, vin.shares.v)[2]
             WaccCase(w) ==
                 IF w > terminal_growth /\ w > 0 THEN PerShare(w, growth) ELSE NoneNum
             GrowthCase(gr) ==
                 IF gr < wacc /\ gr > -5000 THEN PerShare(wacc, gr) ELSE NoneNum
             fair_value == PerShare(wacc, growth)
         IN  [AbsentMethod EXCEPT
                 !.present = TRUE,
                 !.fair_value = fair_value,
                 !.wacc = wacc, !.g = growth, !.gt = terminal_growth,
                 !.years = n_years,
                 !.sens = <<WaccCase(wacc - 200), WaccCase(wacc + 200),
                            GrowthCase(growth - 100), GrowthCase(growth + 100)>>,
                 !.upside = IF IsNaN(vin.price) THEN NoneNum
                            ELSE Upside(fair_value, vin.price.v)]

\* ValuationEngine.run, the four relative blocks; band is <<low, high>>
PeBandMethod(vin, facts, band) ==
    IF ~(IsNaN(facts.eps) \/ IsNaN(vin.shares) \/ IsNaN(vin.price))
       /\ facts.eps.v > 0 /\ vin.price.v > 0
    THEN LET fair_value == Num((facts.eps.v * ((band[1] + band[2]) \div 2)) \div 100)
         IN  [AbsentMethod EXCEPT !.present = TRUE, !.fair_value = fair_value,
                                  !.low = band[1], !.high = band[2],
                                  !.upside = Upside(fair_value, vin.price.v)]
    ELSE AbsentMethod
EvEbitdaMethod(vin, facts, band) ==
    IF IsNaN(vin.ebitda) \/ vin.ebitda.v <= 0 \/ IsNaN(facts.net_debt)
       \/ IsNaN(vin.shares)
    THEN AbsentMethod
    ELSE LET implied_equity == vin.ebitda.v * ((band[1] + band[2]) \div 2)
                                   - facts.net_debt.v * 100
             fair_value == IF vin.shares.v > 0
                           THEN Num(implied_equity \div vin.shares.v) ELSE NaNNum
         IN  [AbsentMethod EXCEPT !.present = TRUE, !.fair_value = fair_value,
                                  !.low = band[1], !.high = band[2],
                                  !.upside = IF IsNaN(vin.price) THEN NoneNum
                                             ELSE Upside(fair_value, vin.price.v)]
PbBandMethod(vin, facts, band) ==
    IF ~IsNaN(facts.book_per_share) /\ facts.book_per_share.v > 0
    THEN LET fair_value ==
                 Num((facts.book_per_share.v * ((band[1] + band[2]) \div 2)) \div 100)
         IN  [AbsentMethod EXCEPT !.present = TRUE, !.fair_value = fair_value,
                                  !.low = band[1], !.high = band[2],
                                  !.upside = IF ~IsNaN(vin.price) /\ vin.price.v > 0
                                             THEN Upside(fair_value, vin.price.v)
                                             ELSE NoneNum]
    ELSE AbsentMethod
EvSalesMethod(vin, facts, band) ==
    IF IsNaN(vin.revenue) \/ vin.revenue.v <= 0 \/ IsNaN(facts.net_debt)
       \/ IsNaN(vin.shares) \/ vin.shares.v = 0
    THEN AbsentMethod
    ELSE LET implied_equity == vin.revenue.v * ((band[1] + band[2]) \div 2)
                                   - facts.net_debt.v * 100
             fair_value == IF vin.shares.v > 0
                           THEN Num(implied_equity \div vin.shares.v) ELSE NaNNum
         IN  [AbsentMethod EXCEPT !.present = TRUE, !.fair_value = fair_value,
                                  !.low = band[1], !.high = band[2],
                                  !.upside = IF ~IsNaN(vin.price) /\ vin.price.v > 0
                                             THEN Upside(fair_value, vin.price.v)
                                             ELSE NoneNum]

\* float(np.nanmean(fair_values)) if fair_values else None
Intrinsic(methods) ==
    LET counted == {name \in MethodNames :
                       methods[name].present /\ ~IsNaN(methods[name].fair_value)}
        Value(name) == IF name \in counted THEN methods[name].fair_value.v ELSE 0
        total == Value("dcf") + Value("pe_band") + Value("ev_ebitda")
                     + Value("pb_band") + Value("ev_sales")
    IN  IF counted = {} THEN NoneNum ELSE Num(total \div Cardinality(counted))

\* the base / bull / bear cases, <<>> when there is no base value
\* bull_wacc = max(wacc - 0.01, 0.05)
BullWaccUnfloored(wacc) == wacc - 100
BullWacc(wacc) == Max2(wacc - 100, 500)
Scenarios(vin, facts, intrinsic, dcf, wacc, growth, terminal_growth, n_years) ==
    IF IsNaN(intrinsic) THEN <<>>
    ELSE LET Case(label, w, g_val) ==
                 [case |-> label, wacc |-> w, g |-> g_val,
                  fair_value |->
                      IF ~IsNaN(dcf.fair_value)
                      THEN DcfFcff(facts.fcf.v, g_val, w, terminal_growth, n_years,
                                   facts.net_debt,
                                   IF vin.shares.v > 0 THEN vin.shares.v ELSE 1)[2]
                      ELSE intrinsic]
             bull_wacc == BullWacc(wacc)
             bull_g == IF bull_wacc > 100 THEN Min2(growth + 100, bull_wacc - 50)
                       ELSE growth
             bear_wacc == Min2(wacc + 100, 2000)
             bear_g == Max2(growth - 100, -500)
         IN  <<Case("base", wacc, growth), Case("bull", bull_wacc, bull_g),
               Case("bear", bear_wacc, bear_g)>>

\* ValuationEngine.run.  The fields are the values handed to ValuationBundle
\* at the return statement; raised tells that the constructor call raised
\* (TypeError: unexpected keyword argument), so that no bundle is returned.
NotRun ==
    [called |-> FALSE, raised |-> FALSE, intrinsic_value |-> NoneNum,
     valuation_methods |-> [name \in MethodNames |-> AbsentMethod],
     scenarios |-> <<>>, assumptions |-> [k \in AssumptionKeys |-> 0],
     warnings |-> <<>>]
EngineRun(vin) ==
    LET facts == EngineFacts(vin)
        defaults == DeriveAssumptions(vin.net_margin, vin.debt_to_equity,
                                      NaNNum, NaNNum)
        Pick(key) == PickAssumption(key, vin.overrides, vin.hints,
                                    vin.dataset[key], defaults[key])
        wacc == Pick("wacc")
        growth == Pick("g")
        terminal_growth == Pick("terminal_growth")
        n_years == Max2(RoundTenths(Pick("forecast_years")), 1)
        Band(band) == BandUsed(band, vin.overrides, vin.hints, defaults)
        dcf == DcfMethod(vin, facts, wacc, growth, terminal_growth, n_years)
        methods ==
            [name \in MethodNames |->
                CASE name = "dcf" -> dcf
                  [] name = "pe_band" -> PeBandMethod(vin, facts, Band("pe"))
                  [] name = "ev_ebitda" -> EvEbitdaMethod(vin, facts, Band("ev_ebitda"))
                  [] name = "pb_band" -> PbBandMethod(vin, facts, Band("pb"))
                  [] OTHER -> EvSalesMethod(vin, facts, Band("ev_sales"))]
        intrinsic == Intrinsic(methods)
    IN  [called |-> TRUE,
         raised |-> ValuationEngineRaises,
         intrinsic_value |-> intrinsic,
         valuation_methods |-> methods,
         scenarios |-> Scenarios(vin, facts, intrinsic, dcf, wacc, growth,
                                 terminal_growth, n_years),
         assumptions |-> [k \in AssumptionKeys |->
                             IF ~IsNaN(vin.hints[k]) THEN vin.hints[k].v
                             ELSE defaults[k]],
         warnings |-> (IF IsNaN(vin.shares) \/ vin.shares.v <= 0
                       THEN <<W_SHARES>> ELSE <<>>)
                      \o (IF IsNaN(facts.eps) \/ facts.eps.v <= 0
                          THEN <<W_EPS>> ELSE <<>>)]

\* A fully populated input: one annual statement of each kind, positive
\* EPS, EBITDA, FCF, shares and price, net debt 300.
FullInput ==
    [price |-> Num(1500), shares |-> Num(100), net_income |-> Num(132),
     ebitda |-> Num(264), revenue |-> Num(1100),
     st_debt |-> Num(120), lt_debt |-> Num(300), cash |-> Num(120),
     total_equity |-> Num(900),
     fcf |-> Num(120), ocf |-> Num(200), capex |-> Num(80),
     net_margin |-> Num(1200), debt_to_equity |-> NaNNum,
     dataset |-> NoAssumptions, overrides |-> NoAssumptions,
     hints |-> NoAssumptions]

\* datasets with metrics missing, zero or negative (a missing statement
\* list reads as all of its metrics missing), no overrides and no hints
FactInputs ==
    {[FullInput EXCEPT !.price = pr, !.shares = sh, !.net_income = ni,
                       !.ebitda = eb, !.revenue = rv,
                       !.st_debt = debt[1], !.lt_debt = debt[2], !.cash = debt[3],
                       !.total_equity = te,
                       !.fcf = cf[1], !.ocf = cf[2], !.capex = cf[3]] :
        pr \in {NaNNum, Num(0), Num(1500)},
        sh \in {NaNNum, Num(0), Num(-100), Num(100)},
        ni \in {NaNNum, Num(-50), Num(132)},
        eb \in {NaNNum, Num(0), Num(264)},
        rv \in {NaNNum, Num(1100)},
        debt \in {<<Num(120), Num(300), Num(120)>>, <<NaNNum, NaNNum, Num(120)>>,
                  <<Num(100), NaNNum, Num(500)>>, <<Num(120), Num(300), NaNNum>>},
        te \in {NaNNum, Num(900)},
        cf \in {<<Num(120), Num(200), Num(80)>>, <<NaNNum, Num(200), Num(80)>>,
                <<NaNNum, NaNNum, NaNNum>>}}

\* overrides, hints and dataset-embedded values for one parameter, or for
\* one band, on the fully populated dataset
OverrideValues(key) ==
    CASE key = "wacc" -> {Num(1200), Num(400), Num(550), Num(2500)}
      [] key = "g" -> {Num(600), Num(1500), Num(-800)}
      [] key = "terminal_growth" -> {Num(200)}
      [] key = "forecast_years" -> {Num(30), Num(25), Num(0)}
      [] key \in {Low(b) : b \in Bands} -> {Num(10), Num(5000), Num(0)}
      [] OTHER -> {Num(3000)}
HintValue(key) ==
    CASE key = "wacc" -> Num(1100)
      [] key = "g" -> Num(700)
      [] key = "terminal_growth" -> Num(150)
      [] key = "forecast_years" -> Num(40)
      [] key \in {Low(b) : b \in Bands} -> Num(20)
      [] OTHER -> Num(2500)
DatasetValue(key) ==
    CASE key = "wacc" -> Num(950)
      [] key = "g" -> Num(400)
      [] key = "terminal_growth" -> Num(280)
      [] OTHER -> Num(60)
ProfitabilityTiers ==
    {NaNNum, Num(-1000), Num(300), Num(1200), Num(2000)} \X
    {NaNNum, Num(3000), Num(10000), Num(20000)}
ParameterInputs ==
    UNION {{[FullInput EXCEPT !.overrides[key] = o, !.hints[key] = h,
                              !.dataset[key] = d,
                              !.net_margin = tier[1], !.debt_to_equity = tier[2]] :
               o \in {NaNNum} \cup OverrideValues(key),
               h \in {NaNNum, HintValue(key)},
               d \in {NaNNum, DatasetValue(key)},
               tier \in ProfitabilityTiers} : key \in DcfKeys}
BandInputs ==
    {[FullInput EXCEPT !.overrides[Low(band)] = ol, !.overrides[High(band)] = oh,
                       !.hints[Low(band)] = hl, !.hints[High(band)] = hh,
                       !.net_margin = tier[1], !.debt_to_equity = tier[2]] :
        band \in Bands,
        ol \in {NaNNum} \cup OverrideValues("pe_low"),
        oh \in {NaNNum} \cup OverrideValues("pe_high"),
        hl \in {NaNNum, HintValue("pe_low")},
        hh \in {NaNNum, HintValue("pe_high")},
        tier \in ProfitabilityTiers}
EngineInputs == FactInputs \cup ParameterInputs \cup BandInputs

\* valuation.run line 34: bundle = context.valuation_engine.run(...)
EngineCall ==
    /\ pc = "running" /\ queue # <<>> /\ Head(queue) = "engine_run"
    /\ state' = [state EXCEPT !.engine = EngineRun(state.vin)]
    /\ trace' = Append(trace, "engine_run")
    /\ queue' = Tail(queue)
    /\ pc' = IF state'.engine.raised THEN "raised" ELSE "done"
    /\ UNCHANGED <<gemini, tushare, faults>>

\* ValuationEngine.run applied to every input of EngineInputs
InitValuation ==
    /\ gemini = FALSE
    /\ tushare = FALSE
    /\ \E vin \in EngineInputs : state = [vin |-> vin, engine |-> NotRun]
    /\ queue = <<"engine_run">>
    /\ pc = "running"
    /\ trace = <<>>
    /\ faults = 0

NextValuation == EngineCall

SpecValuation == InitValuation /\ [][NextValuation]_vars

\* ---------------------------------------------------------------- RatioCalculator
\* RatioCalculator.calculate on a dataset of one or two periods per statement
\* list (periods are distinct, so _dedup_statements returns its input).
\* Amounts are whole units, ratios are in thousandths, dso/dio/dpo in
\* thousandths of a day.
IncKeys ==
    {"revenue", "cogs", "gross_profit", "operating_income", "ebit", "ebitda",
     "net_income", "interest_expense"}
BsKeys ==
    {"total_assets", "total_equity", "cash_and_equivalents", "short_term_debt",
     "long_term_debt", "inventory", "accounts_receivable", "accounts_payable",
     "current_assets", "current_liabilities", "shares_outstanding", "price",
     "market_cap", "dividend_per_share"}
CfKeys == {"operating_cash_flow", "capital_expenditures", "free_cash_flow"}
MetricKeys == IncKeys \cup BsKeys \cup CfKeys

\* sdiv without the test for a zero denominator
SdivZeroAsZero(a, b) ==
    IF IsNaN(a) \/ IsNaN(b) THEN NaNNum
    ELSE IF b.v = 0 THEN Num(0)
    ELSE Num((a.v * 1000) \div b.v)
\* sdiv: NaN when an argument is NaN or the denominator is zero
Sdiv(a, b) ==
    IF IsNaN(a) \/ IsNaN(b) \/ b.v = 0 THEN NaNNum
    ELSE Num((a.v * 1000) \div b.v)
\* an amount on the scale of the ratios
Milli(x) == IF IsNaN(x) THEN NaNNum ELSE Num(x.v * 1000)
\* float arithmetic: NaN when an operand is NaN
Plus(a, b) == IF IsNaN(a) \/ IsNaN(b) THEN NaNNum ELSE Num(a.v + b.v)
Minus(a, b) == IF IsNaN(a) \/ IsNaN(b) THEN NaNNum ELSE Num(a.v - b.v)
Days(x) == IF IsNaN(x) THEN NaNNum ELSE Num(x.v * 365)
Abs(x) == IF IsNaN(x) THEN NaNNum ELSE Num(IF x.v < 0 THEN -x.v ELSE x.v)
OrZero(x) == IF IsNaN(x) THEN Num(0) ELSE x

\* g(latest, key) and g(prev, key); prev is None when there is one period
Latest(rin, key) == rin.latest[key]
Prev(rin, key) == IF rin.has_prev THEN rin.prev[key] ELSE NaNNum
\* avg(key)
Avg(rin, key) ==
    LET a == Latest(rin, key)
        b == Prev(rin, key)
    IN  IF IsNaN(a) /\ IsNaN(b) THEN NaNNum
        ELSE IF IsNaN(b) THEN a
        ELSE IF IsNaN(a) THEN b
        ELSE Num((a.v + b.v) \div 2)
\* _ttm_from_df: the latest value when the window is annual or has one
\* period, else the sum of the values present in the window
Ttm(rin, key) ==
    IF ~(rin.quarterly /\ rin.has_prev) THEN rin.latest[key]
    ELSE IF IsNaN(rin.latest[key]) /\ IsNaN(rin.prev[key]) THEN NaNNum
    ELSE Num(OrZero(rin.latest[key]).v + OrZero(rin.prev[key]).v)

\* net debt without the floor at zero
NetDebtUnfloored(total_debt, cash) ==
    IF ~IsNaN(total_debt) /\ ~IsNaN(cash)
    THEN Num(total_debt.v - cash.v) ELSE NaNNum
\* net_debt = max(total_debt - cash, 0.0) when both are known
NetDebt(total_debt, cash) ==
    IF ~IsNaN(total_debt) /\ ~IsNaN(cash)
    THEN Num(Max2(total_debt.v - cash.v, 0)) ELSE NaNNum

\* the base values RatioCalculator.calculate reads
RatioFacts(rin) ==
    LET ocf == Ttm(rin, "operating_cash_flow")
        capex == Ttm(rin, "capital_expenditures")
        fcf_ttm == Ttm(rin, "free_cash_flow")
        st_debt == Latest(rin, "short_term_debt")
        lt_debt == Latest(rin, "long_term_debt")
        total_debt == IF IsNaN(st_debt) /\ IsNaN(lt_debt) THEN NaNNum
                      ELSE Num(OrZero(st_debt).v + OrZero(lt_debt).v)
        cash == Latest(rin, "cash_and_equivalents")
        shares_out == Latest(rin, "shares_outstanding")
        price == Latest(rin, "price")
        market_cap_bs == Latest(rin, "market_cap")
    IN  [revenue |-> Ttm(rin, "revenue"),
         cogs |-> Ttm(rin, "cogs"),
         gross_profit |-> Ttm(rin, "gross_profit"),
         operating_income |-> Ttm(rin, "operating_income"),
         ebit |-> Ttm(rin, "ebit"),
         ebitda |-> Ttm(rin, "ebitda"),
         net_income |-> Ttm(rin, "net_income"),
         interest_expense |-> Abs(Ttm(rin, "interest_expense")),
         ocf |-> ocf,
         capex |-> capex,
         fcf |-> IF IsNaN(fcf_ttm) /\ ~IsNaN(ocf) /\ ~IsNaN(capex)
                 THEN Minus(ocf, capex) ELSE fcf_ttm,
         total_assets |-> Latest(rin, "total_assets"),
         total_equity |-> Latest(rin, "total_equity"),
         current_assets |-> Latest(rin, "current_assets"),
         current_liabilities |-> Latest(rin, "current_liabilities"),
         inventory |-> Latest(rin, "inventory"),
         accounts_receivable |-> Latest(rin, "accounts_receivable"),
         accounts_payable |-> Latest(rin, "accounts_payable"),
         cash |-> cash,
         total_debt |-> total_debt,
         avg_assets |-> Avg(rin, "total_assets"),
         avg_equity |-> Avg(rin, "total_equity"),
         avg_inventory |-> Avg(rin, "inventory"),
         avg_ar |-> Avg(rin, "accounts_receivable"),
         avg_ap |-> Avg(rin, "accounts_payable"),
         shares_out |-> shares_out,
         price |-> price,
         dividend_per_share |-> Latest(rin, "dividend_per_share"),
         market_cap |-> IF IsNaN(market_cap_bs) /\ ~IsNaN(price) /\ ~IsNaN(shares_out)
                        THEN Num(price.v * shares_out.v) ELSE market_cap_bs,
         net_debt |-> NetDebt(total_debt, cash)]

RatioNames ==
    {"gross_margin", "operating_margin", "net_margin", "ebitda_margin",
     "roe", "roa", "current_ratio", "quick_ratio",
     "debt_to_equity", "debt_to_assets", "net_debt_to_ebitda",
     "interest_coverage",
     "asset_turnover", "inventory_turnover", "receivables_turnover",
     "payables_turnover", "dso", "dio", "dpo", "cash_conversion_cycle",
     "fcf_margin", "capex_to_sales", "ocf_ratio",
     "eps", "pe", "pb", "pcf", "dividend_yield",
     "ev_over_ebitda", "ev_over_sales"}

\* the enterprise value over a base, NaN without a market cap
EvOver(f, base) ==
    IF IsNaN(f.market_cap) THEN NaNNum
    ELSE Sdiv(Plus(f.market_cap, OrZero(f.net_debt)), base)

\* the ratios mapping of RatioCalculator.calculate
Ratio(f, name) ==
    CASE name = "gross_margin" -> Sdiv(f.gross_profit, f.revenue)
      [] name = "operating_margin" -> Sdiv(f.operating_income, f.revenue)
      [] name = "net_margin" -> Sdiv(f.net_income, f.revenue)
      [] name = "ebitda_margin" -> Sdiv(f.ebitda, f.revenue)
      [] name = "roe" -> Sdiv(f.net_income, f.avg_equity)
      [] name = "roa" -> Sdiv(f.net_income, f.avg_assets)
      [] name = "current_ratio" -> Sdiv(f.current_assets, f.current_liabilities)
      [] name = "quick_ratio" ->
            Sdiv(Minus(f.current_assets, OrZero(f.inventory)), f.current_liabilities)
      [] name = "debt_to_equity" -> Sdiv(f.total_debt, f.total_equity)
      [] name = "debt_to_assets" -> Sdiv(f.total_debt, f.total_assets)
      [] name = "net_debt_to_ebitda" -> Sdiv(f.net_debt, f.ebitda)
      [] name = "interest_coverage" -> Sdiv(f.ebit, f.interest_expense)
      [] name = "asset_turnover" -> Sdiv(f.revenue, f.avg_assets)
      [] name = "inventory_turnover" -> Sdiv(f.cogs, f.avg_inventory)
      [] name = "receivables_turnover" -> Sdiv(f.revenue, f.avg_ar)
      [] name = "payables_turnover" -> Sdiv(f.cogs, f.avg_ap)
      [] name = "dso" -> Days(Sdiv(f.accounts_receivable, f.revenue))
      [] name = "dio" -> Days(Sdiv(f.inventory, f.cogs))
      [] name = "dpo" -> Days(Sdiv(f.accounts_payable, f.cogs))
      [] name = "cash_conversion_cycle" ->
            Minus(Plus(Days(Sdiv(f.accounts_receivable, f.revenue)),
                       Days(Sdiv(f.inventory, f.cogs))),
                  Days(Sdiv(f.accounts_payable, f.cogs)))
      [] name = "fcf_margin" -> Sdiv(f.fcf, f.revenue)
      [] name = "capex_to_sales" -> Sdiv(f.capex, f.revenue)
      [] name = "ocf_ratio" -> Sdiv(f.ocf, f.current_liabilities)
      [] name = "eps" -> Sdiv(f.net_income, f.shares_out)
      [] name = "pe" -> Sdiv(Milli(f.price), Sdiv(f.net_income, f.shares_out))
      [] name = "pb" -> Sdiv(Milli(f.price), Sdiv(f.total_equity, f.shares_out))
      [] name = "pcf" -> Sdiv(Milli(f.price), Sdiv(f.ocf, f.shares_out))
      [] name = "dividend_yield" -> Sdiv(f.dividend_per_share, f.price)
      [] name = "ev_over_ebitda" -> EvOver(f, f.ebitda)
      [] OTHER -> EvOver(f, f.revenue)

\* RatioCalculator.calculate: ValueError on an incomplete dataset, else the
\* RatioSummary
NotCalculated ==
    [called |-> FALSE, raised |-> FALSE, ratios |-> [name \in RatioNames |-> NoneNum]]
Calculate(rin) ==
    IF ~rin.complete
    THEN [called |-> TRUE, raised |-> TRUE,
          ratios |-> [name \in RatioNames |-> NoneNum]]
    ELSE LET f == RatioFacts(rin)
         IN  [called |-> TRUE, raised |-> FALSE,
              ratios |-> [name \in RatioNames |-> Ratio(f, name)]]

\* the dataset of tests/test_ratios.py: two annual periods (2021, 2022);
\* market_cap is not supplied.  dividend_per_share (0.5 there) is 1 here,
\* amounts being whole units.
FixtureLatest ==
    [k \in MetricKeys |->
        CASE k = "revenue" -> Num(1100) [] k = "cogs" -> Num(660)
          [] k = "gross_profit" -> Num(440) [] k = "operating_income" -> Num(220)
          [] k = "ebit" -> Num(220) [] k = "ebitda" -> Num(264)
          [] k = "net_income" -> Num(132) [] k = "interest_expense" -> Num(22)
          [] k = "total_assets" -> Num(1600) [] k = "total_equity" -> Num(820)
          [] k = "cash_and_equivalents" -> Num(120)
          [] k = "short_term_debt" -> Num(160) [] k = "long_term_debt" -> Num(260)
          [] k = "inventory" -> Num(210) [] k = "accounts_receivable" -> Num(160)
          [] k = "accounts_payable" -> Num(110) [] k = "current_assets" -> Num(740)
          [] k = "current_liabilities" -> Num(320)
          [] k = "shares_outstanding" -> Num(100) [] k = "price" -> Num(15)
          [] k = "dividend_per_share" -> Num(1)
          [] k = "operating_cash_flow" -> Num(198)
          [] k = "capital_expenditures" -> Num(66)
          [] k = "free_cash_flow" -> Num(132)
          [] OTHER -> NaNNum]
FixturePrev ==
    [k \in MetricKeys |->
        CASE k = "revenue" -> Num(1000) [] k = "cogs" -> Num(600)
          [] k = "gross_profit" -> Num(400) [] k = "operating_income" -> Num(200)
          [] k = "ebit" -> Num(200) [] k = "ebitda" -> Num(240)
          [] k = "net_income" -> Num(120) [] k = "interest_expense" -> Num(20)
          [] k = "total_assets" -> Num(1500) [] k = "total_equity" -> Num(800)
          [] k = "cash_and_equivalents" -> Num(100)
          [] k = "short_term_debt" -> Num(150) [] k = "long_term_debt" -> Num(250)
          [] k = "inventory" -> Num(200) [] k = "accounts_receivable" -> Num(150)
          [] k = "accounts_payable" -> Num(100) [] k = "current_assets" -> Num(700)
          [] k = "current_liabilities" -> Num(300)
          [] k = "shares_outstanding" -> Num(100)
          [] k = "operating_cash_flow" -> Num(180)
          [] k = "capital_expenditures" -> Num(60)
          [] k = "free_cash_flow" -> Num(120)
          [] OTHER -> NaNNum]
FixtureDataset ==
    [complete |-> TRUE, has_prev |-> TRUE, quarterly |-> FALSE,
     latest |-> FixtureLatest, prev |-> FixturePrev]

\* the fixture with up to two metrics of the latest period, and that of the
\* previous period for the first, missing, zero, negative or supplied; with
\* one period or two, annual or quarterly; and incomplete datasets
RatioInputsAt(k1, k2) ==
    {[FixtureDataset EXCEPT !.latest[k1] = v1, !.latest[k2] = v2, !.prev[k1] = p1,
                            !.has_prev = hp, !.quarterly = q] :
        v1 \in {NaNNum, Num(0), Num(-50), Num(2000)},
        v2 \in {NaNNum, Num(0), FixtureLatest[k2]},
        p1 \in {NaNNum, Num(0), FixturePrev[k1]},
        hp \in BOOLEAN, q \in BOOLEAN}
IncompleteInputs ==
    {[FixtureDataset EXCEPT !.complete = FALSE, !.has_prev = hp] : hp \in BOOLEAN}

\* ratios.run: summary = context.ratio_calculator.calculate(dataset)
RatioCalculate ==
    /\ pc = "running" /\ queue # <<>> /\ Head(queue) = "calculate"
    /\ state' = [state EXCEPT !.summary = Calculate(state.rin)]
    /\ trace' = Append(trace, "calculate")
    /\ queue' = Tail(queue)
    /\ pc' = IF state'.summary.raised THEN "raised" ELSE "done"
    /\ UNCHANGED <<gemini, tushare, faults>>

\* RatioCalculator.calculate applied to every input of RatioInputsAt and
\* IncompleteInputs
InitRatios ==
    /\ gemini = FALSE
    /\ tushare = FALSE
    /\ \E k1 \in MetricKeys, k2 \in MetricKeys :
           \E rin \in RatioInputsAt(k1, k2) \cup IncompleteInputs :
               state = [rin |-> rin, summary |-> NotCalculated]
    /\ queue = <<"calculate">>
    /\ pc = "running"
    /\ trace = <<>>
    /\ faults = 0

NextRatios == RatioCalculate

SpecRatios == InitRatios /\ [][NextRatios]_vars

\* ------------------------------------------ the stages that inject the price
\* quant_metrics.run and valuation.run on a state whose dataset is missing,
\* incomplete or complete.  A balance sheet is read through its period
\* (1 is the oldest) and the three metrics the injection touches; NoneNum is
\* a key that is not in the metrics mapping.  before is the dataset as
\* data_load left it.
MaxSheets == 2
Sheet(period, price, shares) ==
    [period |-> period, price |-> price, shares_outstanding |-> shares,
     market_cap |-> NoneNum]
\* _rows_to_dataset keeps the order of fetch_statements (ORDER BY report_date
\* DESC); _normalize_tushare_financials hands back lists sorted by period
SheetPeriod(source, n, i) == IF source = "cache" THEN n + 1 - i ELSE i
BalanceSheets(source, n, price, shares) ==
    [i \in 1..n |-> Sheet(SheetPeriod(source, n, i), price, shares)]
NoDataset ==
    [present |-> FALSE, income_statements |-> 0, balance_sheets |-> <<>>,
     cash_flows |-> 0]
\* FinancialDataset.is_complete
IsComplete(dataset) ==
    /\ dataset.income_statements > 0
    /\ Len(dataset.balance_sheets) > 0
    /\ dataset.cash_flows > 0

\* lines 14-24 of quant_metrics.run, 16-26 of valuation.run
InjectPrice(dataset, current_price) ==
    IF dataset.present /\ dataset.balance_sheets # <<>> /\ current_price.kind # "none"
    THEN LET last == Len(dataset.balance_sheets)
             latest_bs == dataset.balance_sheets[last]
             priced == [latest_bs EXCEPT !.price = current_price]
             capped == IF latest_bs.shares_outstanding.kind = "none" THEN priced
                       ELSE [priced EXCEPT !.market_cap =
                                Num(current_price.v * latest_bs.shares_outstanding.v)]
         IN  [dataset EXCEPT !.balance_sheets[last] = capped]
    ELSE dataset

\* the statement RatioCalculator and ValuationEngine read as the latest
\* snapshot (_latest_and_prev sorts by period)
LatestSheet(dataset) ==
    CHOOSE sheet \in Range(dataset.balance_sheets) :
        \A other \in Range(dataset.balance_sheets) : other.period <= sheet.period

\* variant: the stage returns without a word
QuantMetricsSkipSilently(s) == s
QuantMetricsSkip(s) ==
    Err(s, "QuantMetricsAgent skipped because financial dataset is incomplete.")
\* quant_metrics.run; o is what the calculators do
QuantMetricsStage(s, o) ==
    LET s0 == [s EXCEPT !.financials = InjectPrice(@, s.current_price)]
    IN  IF ~s0.financials.present \/ ~IsComplete(s0.financials)
        THEN QuantMetricsSkip(s0)
        ELSE LET s1 == Log(s0, "QuantMetricsAgent -> compute growth and ratios")
             IN  IF o = "ok"
                 THEN [s1 EXCEPT !.growth_curve = TRUE, !.ratios = TRUE,
                                 !.anomalies = TRUE]
                 ELSE Err(s1, "Quant metrics failed")
\* valuation.run; the engine runs as ValuationEngine.run does
ValuationStage(s) ==
    LET s0 == [s EXCEPT !.financials = InjectPrice(@, s.current_price)]
    IN  IF ~s0.financials.present \/ ~s0.ratios
        THEN Err(s0, "ValuationAgent skipped because prerequisites are missing.")
        ELSE LET s1 == Log(s0, "ValuationAgent -> execute DCF and peer comparisons")
             IN  IF ValuationEngineRaises
                 THEN Err(s1, "Valuation engine failed")
                 ELSE [s1 EXCEPT !.valuation = TRUE]

StageStep(key, next_state) ==
    /\ pc = "running" /\ queue # <<>> /\ Head(queue) = key
    /\ state' = next_state
    /\ trace' = Append(trace, key)
    /\ queue' = Tail(queue)
    /\ pc' = IF queue' = <<>> THEN "done" ELSE pc
    /\ UNCHANGED <<gemini, tushare, faults>>
QuantMetricsCall ==
    \E o \in QuantMetricsOutcomes :
        StageStep("quant_metrics", QuantMetricsStage(state, o))
ValuationCall == StageStep("valuation", ValuationStage(state))

\* the state data_load and price_enrich leave: no dataset, or one from the
\* cache or the provider, with or without a current price
InitStages ==
    /\ gemini = FALSE
    /\ tushare \in BOOLEAN
    /\ \E present \in BOOLEAN, inc \in 0..1, cf \in 0..1, n \in 0..MaxSheets,
          price \in {NoneNum, Num(12)}, shares \in {NoneNum, Num(100)},
          current_price \in {NoneNum, Num(15)} :
          LET source == IF tushare THEN "provider" ELSE "cache"
              dataset == IF present
                         THEN [present |-> TRUE, income_statements |-> inc,
                               balance_sheets |-> BalanceSheets(source, n, price, shares),
                               cash_flows |-> cf]
                         ELSE NoDataset
          IN  state = [logs |-> <<>>, errors |-> <<>>,
                       financials |-> dataset, before |-> dataset,
                       current_price |-> current_price,
                       growth_curve |-> FALSE, ratios |-> FALSE,
                       anomalies |-> FALSE, valuation |-> FALSE]
    /\ queue = <<"quant_metrics", "valuation">>
    /\ pc = "running"
    /\ trace = <<>>
    /\ faults = 0

NextStages == QuantMetricsCall \/ ValuationCall

SpecStages == InitStages /\ [][NextStages]_vars

\* ---------------------------------------------------------------- AnomalyDetector
\* AnomalyDetector.detect on a dataset with up to two income periods
\* (previous, latest); bs and cf count the balance sheets and cash flows;
\* net_margin is ratios["net_margin"] in thousandths (NoneNum: no such key).
IncomeRows ==
    {[revenue |-> r, net_income |-> ni] :
        r \in {NaNNum, Num(100), Num(150)}, ni \in {NaNNum, Num(10), Num(-5)}}
\* no income statement, the latest one, or the previous and the latest
IncomeLists ==
    {<<>>} \cup {<<latest>> : latest \in IncomeRows}
    \cup {<<prev, latest>> : prev \in IncomeRows, latest \in IncomeRows}
\* abs(pct_change) >= 0.3 between two consecutive rows
Swing(prev, cur) ==
    /\ ~IsNaN(prev) /\ ~IsNaN(cur) /\ prev.v # 0
    /\ LET diff == cur.v - prev.v
           base == prev.v
       IN  (IF diff < 0 THEN -diff ELSE diff) * 10
               >= 3 * (IF base < 0 THEN -base ELSE base)
GrowthFlags(income, col) ==
    IF Len(income) >= 2 /\ Swing(income[1][col], income[2][col])
    THEN <<col \o " changed">> ELSE <<>>
ProfitabilityFlags(income, net_margin) ==
    (IF net_margin.kind = "num" /\ net_margin.v < 0
     THEN <<"Net margin negative">> ELSE <<>>)
    \o (IF income # <<>> /\ ~IsNaN(income[Len(income)].net_income)
           /\ income[Len(income)].net_income.v < 0
        THEN <<"Latest net income is negative">> ELSE <<>>)
NotDetected == [called |-> FALSE, raised |-> FALSE, growth |-> <<>>, profitability |-> <<>>]
\* AnomalyDetector.detect: ValueError on an incomplete dataset
Detect(ain) ==
    IF ~(Len(ain.income) > 0 /\ ain.bs > 0 /\ ain.cf > 0)
    THEN [called |-> TRUE, raised |-> TRUE, growth |-> <<>>, profitability |-> <<>>]
    ELSE [called |-> TRUE, raised |-> FALSE,
          growth |-> GrowthFlags(ain.income, "revenue")
                         \o GrowthFlags(ain.income, "net_income"),
          profitability |-> ProfitabilityFlags(ain.income, ain.net_margin)]

\* quant_metrics.run line 35: context.anomaly_detector.detect(dataset, ratios)
DetectCall ==
    /\ pc = "running" /\ queue # <<>> /\ Head(queue) = "detect"
    /\ state' = [state EXCEPT !.flags = Detect(state.ain)]
    /\ trace' = Append(trace, "detect")
    /\ queue' = Tail(queue)
    /\ pc' = IF state'.flags.raised THEN "raised" ELSE "done"
    /\ UNCHANGED <<gemini, tushare, faults>>

InitAnomalies ==
    /\ gemini = FALSE
    /\ tushare = FALSE
    /\ \E income \in IncomeLists, bs \in 0..1, cf \in 0..1,
          net_margin \in {NoneNum, NaNNum, Num(-33), Num(120)} :
          state = [ain |-> [income |-> income, bs |-> bs, cf |-> cf,
                            net_margin |-> net_margin],
                   flags |-> NotDetected]
    /\ queue = <<"detect">>
    /\ pc = "running"
    /\ trace = <<>>
    /\ faults = 0

NextAnomalies == DetectCall

SpecAnomalies == InitAnomalies /\ [][NextAnomalies]_vars

\* ---------------------------------------------------------------- DCF
\* calculations._dcf_fcff evaluated at two discount rates with every other
\* argument held fixed, as the sensitivity block of ValuationEngine.run
\* does (wacc - 2pp, wacc + 2pp).  state.din holds the fixed arguments,
\* queue the discount rates still to evaluate, state.per_share the
\* per-share values returned so far.
DcfWaccs == {500, 900, 1000, 1200, 2000}
DcfCall ==
    /\ pc = "running" /\ queue # <<>>
    /\ LET din == state.din
           result == DcfFcff(din.fcf, din.growth, Head(queue), din.terminal_growth,
                             din.years, din.net_debt, din.shares)
       IN  state' = [state EXCEPT !.per_share = Append(@, result[2])]
    /\ trace' = Append(trace, "dcf_fcff")
    /\ queue' = Tail(queue)
    /\ pc' = IF queue' = <<>> THEN "done" ELSE "running"
    /\ UNCHANGED <<gemini, tushare, faults>>
InitDcf ==
    /\ gemini = FALSE
    /\ tushare = FALSE
    /\ \E fcf \in {-120, 0, 120, 1000}, growth \in {-10000, 0, 600},
          terminal_growth \in {200, 1000}, years \in {1, 3},
          net_debt \in {NaNNum, Num(300), Num(100000)},
          shares \in {-100, 0, 1, 100},
          w1 \in DcfWaccs, w2 \in DcfWaccs :
          /\ w1 < w2
          /\ state = [din |-> [fcf |-> fcf, growth |-> growth,
                               terminal_growth |-> terminal_growth,
                               years |-> years, net_debt |-> net_debt,
                               shares |-> shares],
                      waccs |-> <<w1, w2>>, per_share |-> <<>>]
          /\ queue = <<w1, w2>>
    /\ pc = "running"
    /\ trace = <<>>
    /\ faults = 0
NextDcf == DcfCall
SpecDcf == InitDcf /\ [][NextDcf]_vars

\* ---------------------------------------------------------------- growth
\* GrowthCalculator.calculate on the income statements of a dataset.  A row
\* of the frame is one statement: its period (year, month) and the revenue
\* and net_income metrics (NaNNum when missing).  The statements are given
\* one per period in period order, which is what _dedup_statements returns.
\* A CAGR is kept as Num(<<start, end, years>>), the three numbers that
\* determine (end / start) ** (1 / years) - 1.
GrowthPeriods ==
    <<[year |-> 2021, month |-> 12], [year |-> 2022, month |-> 6],
      [year |-> 2022, month |-> 12], [year |-> 2023, month |-> 6]>>
GrowthRow(p, revenue, net_income) ==
    [year |-> p.year, month |-> p.month, revenue |-> revenue,
     net_income |-> net_income]
RECURSIVE FilterRows(_, _)
FilterRows(df, keep) ==
    IF df = <<>> THEN <<>>
    ELSE (IF keep[1] THEN <<Head(df)>> ELSE <<>>)
             \o FilterRows(Tail(df), Tail(keep))
\* calculations._filter_annual
FilterAnnual(df) == FilterRows(df, [i \in 1..Len(df) |-> df[i].month = 12])
\* calculations._cagr_from_df
CagrFromDf(df, col) ==
    LET series == FilterRows(df, [i \in 1..Len(df) |-> ~IsNaN(df[i][col])])
    IN  IF series = <<>> \/ Len(df) < 2 THEN NaNNum
        ELSE LET start == series[1]
                 end == series[Len(series)]
             IN  IF start[col].v <= 0 \/ end[col].v <= 0 THEN NaNNum
                 ELSE Num(<<start[col].v, end[col].v,
                            Max2(end.year - start.year, 1)>>)
\* GrowthCalculator.calculate; periods_count is -1 when the key is not set
GrowthNotRun ==
    [called |-> FALSE, raised |-> FALSE, revenue_cagr |-> NoneNum,
     net_income_cagr |-> NoneNum, periods_count |-> -1]
GrowthCalculate(gin) ==
    IF ~(gin.income # <<>> /\ gin.bs > 0 /\ gin.cf > 0)
    THEN [GrowthNotRun EXCEPT !.called = TRUE, !.raised = TRUE]
    ELSE LET df == gin.income
             annual_df == FilterAnnual(df)
             chosen == IF annual_df # <<>> THEN annual_df ELSE df
         IN  IF df = <<>>
             THEN [GrowthNotRun EXCEPT !.called = TRUE, !.revenue_cagr = NaNNum,
                                       !.net_income_cagr = NaNNum]
             ELSE [called |-> TRUE, raised |-> FALSE,
                   revenue_cagr |-> CagrFromDf(chosen, "revenue"),
                   net_income_cagr |-> CagrFromDf(chosen, "net_income"),
                   periods_count |-> Len(df)]
\* quant_metrics.run line 32: context.growth_calculator.calculate(dataset)
GrowthCall ==
    /\ pc = "running" /\ queue # <<>> /\ Head(queue) = "growth"
    /\ state' = [state EXCEPT !.growth = GrowthCalculate(state.gin)]
    /\ trace' = Append(trace, "growth")
    /\ queue' = Tail(queue)
    /\ pc' = IF state'.growth.raised THEN "raised" ELSE "done"
    /\ UNCHANGED <<gemini, tushare, faults>>
GrowthValues ==
    {NaNNum, Num(-5), Num(100), Num(121)} \X {NaNNum, Num(10)}
InitGrowth ==
    /\ gemini = FALSE
    /\ tushare = FALSE
    /\ \E keep \in [1..Len(GrowthPeriods) -> BOOLEAN],
          values \in [1..Len(GrowthPeriods) -> GrowthValues],
          complete \in BOOLEAN :
          /\ \A i \in 1..Len(GrowthPeriods) :
                 ~keep[i] => values[i] = <<NaNNum, NaNNum>>
          /\ state =
               [gin |-> [income |->
                             FilterRows([i \in 1..Len(GrowthPeriods) |->
                                            GrowthRow(GrowthPeriods[i],
                                                      values[i][1], values[i][2])],
                                        keep),
                         bs |-> IF complete THEN 1 ELSE 0,
                         cf |-> 1],
                growth |-> GrowthNotRun]
    /\ queue = <<"growth">>
    /\ pc = "running"
    /\ trace = <<>>
    /\ faults = 0
NextGrowth == GrowthCall
SpecGrowth == InitGrowth /\ [][NextGrowth]_vars

\* ================================================================ properties
Count(seq, x) == Cardinality({i \in 1..Len(seq) : seq[i] = x})
IsPrefix(a, b) == Len(a) <= Len(b) /\ SubSeq(b, 1, Len(a)) = a
Last(seq) == seq[Len(seq)]
\* position of the last occurrence of x in seq, 0 when there is none
LastIndexOf(seq, x) ==
    LET I == {i \in 1..Len(seq) : seq[i] = x}
    IN  IF I = {} THEN 0 ELSE CHOOSE i \in I : \A j \in I : j <= i
HandlerCalls(seq) == Cardinality({i \in 1..Len(seq) : seq[i] \in Range(StageOrder)})
\* the state is the one the latest qa.run returned
AfterQa == trace # <<>> /\ Last(trace) = "qa"
ChainsRun == Range(trace) \cap PostRunMarks

\* C1 (as claimed): on entry of _apply_rerun_hooks exactly one policy is
\* selected, in the order news > valuation > narrative > re-render only: at
\* most one rerun chain is planned, the valuation chain only without a news
\* request, the narrative chain only without a news or valuation request,
\* and the extra re-render runs only when no chain has run.
C1_HooksStep ==
    (pc = "running" /\ queue # <<>> /\ Head(queue) = "hooks") =>
        LET rr == state.rewrite_requests
            planned == Range(queue') \cap PostRunMarks
        IN  /\ Cardinality(planned) <= 1
            /\ "PostRun:valuation" \in planned => ~Wants(rr, "rerun_news_node")
            /\ "PostRun:narrative" \in planned =>
                   /\ ~Wants(rr, "rerun_news_node")
                   /\ ~Wants(rr, "rerun_valuation_node")
C1_RenderStep ==
    (Count(trace', "PostRun:render") > Count(trace, "PostRun:render")) =>
        ChainsRun = {}
C1_ExactlyOnePolicy == [][C1_HooksStep /\ C1_RenderStep]_vars

\* C2: in one run each rerun chain is started at most once, also when the
\* QA pass inside a chain raises requests again, and the number of handler
\* invocations of a run is bounded (base pass, news chain, valuation chain,
\* final render).
C2_EachChainAtMostOnce ==
    /\ \A m \in PostRunMarks : Count(trace, m) <= 1
    /\ Count(trace, "PostRun:render") <= 1
    /\ HandlerCalls(trace) <= 12 + 6 + 5 + 1
\* a finished run whose last QA pass, inside the valuation chain, asked for
\* the valuation chain again
C2_Witness ==
    /\ pc = "done"
    /\ Count(trace, "PostRun:valuation") = 1
    /\ Wants(state.rewrite_requests, "rerun_valuation_node")
    /\ Count(trace, "qa") >= 2

\* C3 (as claimed): no exception raised inside a stage handler propagates
\* out of ReportWorkflow.run.
C3_NoExceptionEscapes == pc # "raised"

\* C4 (as claimed): when run returns, the last handler invoked is writing,
\* it ran after the last qa pass, and the rendered report carries the final
\* qa_report and the final review_report.
C4_IntendedReview(s) ==
    CleanTextBlock(IF s.review_report.set THEN s.review_report ELSE Plain(0, 0))
C4_FinalRender ==
    pc = "done" =>
        /\ trace # <<>> /\ Last(trace) = "writing"
        /\ LastIndexOf(trace, "qa") < LastIndexOf(trace, "writing")
        /\ state.markdown_report.set
        /\ state.markdown_report.qa_report = state.qa_report
        /\ state.markdown_report.review_report = C4_IntendedReview(state)

\* C5: a rerun chain that fires runs its handlers in the stated order with
\* nothing interleaved, and a finished run has run it to the end.
C5_Expected(mark) ==
    CASE mark = "PostRun:news" ->
           <<"news_fetch_mapreduce", "qual_research", "narrative", "reviewer",
             "writing", "qa">>
      [] mark = "PostRun:valuation" ->
           <<"valuation", "narrative", "reviewer", "writing", "qa">>
      [] OTHER -> <<"narrative", "reviewer", "writing", "qa">>
C5_ChainOrder ==
    \A i \in 1..Len(trace) :
        trace[i] \in PostRunMarks =>
            LET chain == C5_Expected(trace[i])
            IN  /\ \A j \in 1..Len(chain) :
                       i + j <= Len(trace) => trace[i + j] = chain[j]
                /\ pc = "done" => i + Len(chain) <= Len(trace)
\* a finished run in which the narrative chain fired
C5_Witness ==
    /\ pc = "done"
    /\ Count(trace, "PostRun:narrative") = 1

\* C6: after every qa.run, rewrite_requests holds the requests of that pass
\* only: every entry is warranted by the state the pass looked at, no entry
\* occurs twice, and qa_report.rewrite_requests is the same list.
C6_Warranted(s, r) ==
    CASE r.suggested_action = "rerun_news_node" -> ~ValidNewsDigest(s.news_digest)
      [] r.suggested_action = "rerun_valuation_node" ->
           \/ ~s.valuation.set
           \/ s.valuation.methods = {}
           \/ "pe_band" \in s.valuation.methods
      [] r.suggested_action = "rerun_narrative_node" ->
           /\ r.missing_keys # <<>>
           /\ \A k \in Range(r.missing_keys) :
                  ~s.sections[k].set \/ s.sections[k].len < MIN_NARRATIVE_CHARS
      [] OTHER -> FALSE
C6_RequestsOfThisPass ==
    AfterQa =>
        LET rr == state.rewrite_requests
        IN  /\ state.qa_report.set
            /\ state.qa_report.rewrite_requests = rr
            /\ \A i \in 1..Len(rr) : C6_Warranted(state, rr[i])
            /\ \A i, j \in 1..Len(rr) : rr[i] = rr[j] => i = j
\* after the news chain the second QA pass no longer carries the news
\* request of the first pass
C6_Witness ==
    /\ AfterQa
    /\ Count(trace, "qa") = 2
    /\ Count(trace, "PostRun:news") = 1
    /\ ~Wants(state.rewrite_requests, "rerun_news_node")
    /\ state.rewrite_requests # <<>>

\* C7 (as claimed): logs and errors only grow at the end: at every step
\* the previous contents are a prefix of the new contents.
C7_AppendOnly ==
    [][IsPrefix(state.logs, state'.logs)
       /\ IsPrefix(state.errors, state'.errors)]_vars

\* C7: logs only grows at the end; errors only grows at the end except that
\* qa.run first drops the earlier empty-valuation entries: every other entry
\* stays, in order, and no step other than qa.run removes anything.
C7_Kept(errors) == SelectSeq(errors, LAMBDA e : e # QA_VALUATION_EMPTY)
C7_AppendOnlyButStaleValuation ==
    [][/\ IsPrefix(state.logs, state'.logs)
       /\ IsPrefix(C7_Kept(state.errors), C7_Kept(state'.errors))
       /\ (trace' = trace \/ Last(trace') # "qa") =>
              IsPrefix(state.errors, state'.errors)]_vars
\* a second QA pass has dropped the empty-valuation entry of the first pass
\* and appended it again behind the entries that came in between
C7_Witness ==
    /\ AfterQa
    /\ Count(trace, "qa") = 2
    /\ Count(state.errors, QA_VALUATION_EMPTY) = 1
    /\ Last(state.errors) = QA_VALUATION_EMPTY
    /\ Len(C7_Kept(state.errors)) >= 2

\* C8: whenever qa.run has run on a state without valuation or with an
\* empty valuation_methods mapping, rewrite_requests has a request with
\* suggested_action rerun_valuation_node and errors has the critical error.
C8_EmptyValuationFlagged ==
    (AfterQa /\ (~state.valuation.set \/ state.valuation.methods = {})) =>
        /\ \E i \in 1..Len(state.rewrite_requests) :
               state.rewrite_requests[i].suggested_action = "rerun_valuation_node"
        /\ QA_VALUATION_EMPTY \in Range(state.errors)
\* qa.run has run on a bundle whose valuation_methods mapping is empty
C8_Witness ==
    /\ AfterQa
    /\ state.valuation.set /\ state.valuation.methods = {}
    /\ QA_VALUATION_EMPTY \in Range(state.errors)

\* C9 (as claimed): whenever qa.run has run with pe_band in
\* valuation_methods and EPS missing, NaN or non-positive, or the price
\* missing, zero or negative, errors has the pe_band error and
\* rewrite_requests a request with suggested_action rerun_valuation_node.
C9_PeBandFlagged ==
    (/\ AfterQa
     /\ state.valuation.set /\ "pe_band" \in state.valuation.methods
     /\ LET eps == IF state.ratios.set THEN state.ratios.eps ELSE NoneNum
            price == state.current_price
        IN  \/ eps.kind # "num" \/ eps.v <= 0
            \/ price.kind = "none" \/ (price.kind = "num" /\ price.v <= 0))
    => /\ QA_PE_BAND_INVALID \in Range(state.errors)
       /\ Wants(state.rewrite_requests, "rerun_valuation_node")

\* C10 (as claimed): after qa.run, every narrative key whose text is present
\* but shorter than 140 characters is listed in a request with
\* suggested_action rerun_narrative_node.
C10_ShortSectionsFlagged ==
    AfterQa =>
        \A k \in {"company_intro", "industry_analysis", "growth_analysis",
                  "financial_analysis", "valuation_analysis", "core_viewpoints"} :
            (state.sections[k].set /\ state.sections[k].len < 140) =>
                \E i \in 1..Len(state.rewrite_requests) :
                    /\ state.rewrite_requests[i].suggested_action
                           = "rerun_narrative_node"
                    /\ k \in Range(state.rewrite_requests[i].missing_keys)

\* C11: a stored digest that _valid_news_digest accepts has a Map part and
\* a Reduce part, and whenever qa.run has run on a state whose news_digest
\* is missing or lacks either part, rewrite_requests has a request with
\* suggested_action rerun_news_node.
C11_HasMapPart(text) == Range(text) \cap {"h_map", "c_map", "b_map"} # {}
C11_HasReducePart(text) == Range(text) \cap {"h_reduce", "c_reduce", "b_reduce"} # {}
C11_InvalidDigestRerun ==
    AfterQa =>
        LET text == state.news_lines
            both == C11_HasMapPart(text) /\ C11_HasReducePart(text)
        IN  /\ (state.news_digest.set /\ ValidNewsDigestText(text)) => both
            /\ (~state.news_digest.set \/ ~both) =>
                   Wants(state.rewrite_requests, "rerun_news_node")
\* qa.run has run on a stored digest with a Map part and no Reduce part
C11_Witness ==
    /\ AfterQa
    /\ state.news_digest.set
    /\ C11_HasMapPart(state.news_lines) /\ ~C11_HasReducePart(state.news_lines)
    /\ "item" \in Range(state.news_lines)
    /\ Wants(state.rewrite_requests, "rerun_news_node")

\* C12 (as claimed): for every list of statements the engine's
\* _dedup_statements returns without raising, with exactly one statement
\* per distinct period, in ascending order of period, the survivor of a
\* period having the greatest update_flag (missing as 0) and, among those,
\* the greatest announced_date (missing as the minimum date).
C12_Rank(st) ==
    <<FlagValue(st.update_flag),
      IF st.announced_date.kind = "num" THEN st.announced_date.v ELSE MinDate>>
C12_AtMost(a, b) == a[1] < b[1] \/ (a[1] = b[1] /\ a[2] <= b[2])
C12_OnePerPeriodBest(input, out) ==
    /\ {out[i].period : i \in 1..Len(out)} = {input[i].period : i \in 1..Len(input)}
    /\ \A i, j \in 1..Len(out) : i < j => out[i].period < out[j].period
    /\ \A i \in 1..Len(out) :
           /\ \E j \in 1..Len(input) : input[j] = out[i]
           /\ \A j \in 1..Len(input) :
                  input[j].period = out[i].period =>
                      C12_AtMost(C12_Rank(input[j]), C12_Rank(out[i]))
C12_DedupDeterministic ==
    (trace # <<>> /\ trace[1] = "engine_dedup") =>
        /\ ~state.engine.raised
        /\ C12_OnePerPeriodBest(state.statements, state.engine.value)

\* C13 (as claimed): for every list of statements the engine's
\* _dedup_statements, the loader's _dedup_statements and the chart
\* builder's _clean_statements return the same statement for each period.
C13_SameSurvivors ==
    (Len(trace) = 3 /\ Last(trace) = "clean_statements") =>
        /\ ~state.engine.raised /\ ~state.loader.raised /\ ~state.chart.raised
        /\ state.engine.value = state.loader.value
        /\ state.loader.value = state.chart.value

\* ---------------------------------------------------------------- C14
\* C14 (as claimed): for each valuation parameter, the value the engine's
\* methods use is the override when one is supplied, else the hint, else the
\* dataset-embedded value, else the derived default; a supplied override is
\* never replaced by a lower-priority value.
C14_Resolved(vin, key) ==
    IF ~IsNaN(vin.overrides[key]) THEN vin.overrides[key].v
    ELSE IF ~IsNaN(vin.hints[key]) THEN vin.hints[key].v
    ELSE IF ~IsNaN(vin.dataset[key]) THEN vin.dataset[key].v
    ELSE DeriveAssumptions(vin.net_margin, vin.debt_to_equity, NaNNum, NaNNum)[key]
C14_MethodOf(band) ==
    CASE band = "pe" -> "pe_band"
      [] band = "pb" -> "pb_band"
      [] OTHER -> band
C14_OverridePriority ==
    state.engine.called =>
        LET methods == state.engine.valuation_methods
            dcf == methods["dcf"]
        IN  /\ dcf.present =>
                /\ dcf.wacc = C14_Resolved(state.vin, "wacc")
                /\ dcf.g = C14_Resolved(state.vin, "g")
                /\ dcf.gt = C14_Resolved(state.vin, "terminal_growth")
                /\ dcf.years * 10 = C14_Resolved(state.vin, "forecast_years")
            /\ \A band \in Bands :
                   methods[C14_MethodOf(band)].present =>
                       /\ methods[C14_MethodOf(band)].low
                              = C14_Resolved(state.vin, Low(band))
                       /\ methods[C14_MethodOf(band)].high
                              = C14_Resolved(state.vin, High(band))

\* ---------------------------------------------------------------- C15
\* C15 (as claimed): a relative method is never present with a NaN
\* fair_value: it is absent whenever its base metric is not positive and
\* finite, and whenever it is present its fair_value is finite.
C15_BaseMetric(vin, name) ==
    CASE name = "pe_band" -> EngineFacts(vin).eps
      [] name = "ev_ebitda" -> vin.ebitda
      [] name = "pb_band" -> EngineFacts(vin).book_per_share
      [] OTHER -> vin.revenue
C15_RelativeMethodsFinite ==
    state.engine.called =>
        \A name \in MethodNames \ {"dcf"} :
            LET method == state.engine.valuation_methods[name]
                base == C15_BaseMetric(state.vin, name)
            IN  /\ (IsNaN(base) \/ base.v <= 0) => ~method.present
                /\ method.present => method.fair_value.kind = "num"

\* ---------------------------------------------------------------- C16
\* C16 (as claimed): the bundle's intrinsic_value is the arithmetic mean of
\* the finite fair values of valuation_methods, and it is null exactly when
\* no method has a finite fair value.
C16_Finite(methods) ==
    {name \in MethodNames :
        methods[name].present /\ methods[name].fair_value.kind = "num"}
C16_Total(methods) ==
    LET V(name) == IF name \in C16_Finite(methods)
                   THEN methods[name].fair_value.v ELSE 0
    IN  V("dcf") + V("pe_band") + V("ev_ebitda") + V("pb_band") + V("ev_sales")
C16_MeanOfFinite(engine) ==
    LET finite == C16_Finite(engine.valuation_methods)
    IN  /\ (engine.intrinsic_value.kind = "none") <=> (finite = {})
        /\ finite # {} =>
               /\ engine.intrinsic_value.kind = "num"
               /\ engine.intrinsic_value.v
                      = C16_Total(engine.valuation_methods) \div Cardinality(finite)
C16_BundleIntrinsicIsMean ==
    state.engine.called =>
        /\ ~state.engine.raised
        /\ C16_MeanOfFinite(state.engine)

\* ---------------------------------------------------------------- C17
\* C17 (as claimed): for every dataset, overrides and hints the engine
\* returns a bundle without raising; every method whose prerequisite is
\* missing is absent and a warning for that prerequisite is in the warnings.
C17_Missing(vin, name) ==
    LET facts == EngineFacts(vin)
    IN  CASE name = "dcf" -> IsNaN(facts.fcf) \/ IsNaN(facts.net_debt)
                                 \/ IsNaN(vin.shares)
          [] name = "pe_band" -> IsNaN(facts.eps) \/ IsNaN(vin.price)
          [] name = "ev_ebitda" -> IsNaN(vin.ebitda) \/ IsNaN(facts.net_debt)
          [] name = "pb_band" -> IsNaN(facts.book_per_share)
          [] OTHER -> IsNaN(vin.revenue) \/ IsNaN(facts.net_debt)
                          \/ IsNaN(vin.shares)
C17_NeverRaisesAndWarns ==
    state.engine.called =>
        /\ ~state.engine.raised
        /\ \A name \in MethodNames :
               C17_Missing(state.vin, name) =>
                   /\ ~state.engine.valuation_methods[name].present
                   /\ state.engine.warnings # <<>>

\* ---------------------------------------------------------------- C18
\* C18 (as claimed): for a fully populated dataset the engine returns a
\* bundle carrying intrinsic_value, valuation_methods, assumptions and
\* warnings, whose valuation_methods has at least dcf, pe_band and ev_ebitda,
\* each with a finite fair_value.
C18_FullyPopulated(vin) ==
    LET facts == EngineFacts(vin)
        Positive(x) == ~IsNaN(x) /\ x.v > 0
    IN  /\ Positive(facts.eps) /\ Positive(vin.ebitda) /\ Positive(facts.fcf)
        /\ Positive(vin.shares) /\ Positive(vin.price)
        /\ ~IsNaN(facts.net_debt)
C18_CompleteBundle ==
    (state.engine.called /\ C18_FullyPopulated(state.vin)) =>
        /\ ~state.engine.raised
        /\ \A name \in {"dcf", "pe_band", "ev_ebitda"} :
               /\ state.engine.valuation_methods[name].present
               /\ state.engine.valuation_methods[name].fair_value.kind = "num"

\* ---------------------------------------------------------------- C19
\* C19: for every complete dataset RatioCalculator.calculate returns without
\* raising, and every ratio whose denominator is zero or missing, or whose
\* numerator is missing, is NaN rather than a finite number.
C19_Numerator(f, name) ==
    CASE name = "gross_margin" -> f.gross_profit
      [] name = "operating_margin" -> f.operating_income
      [] name \in {"net_margin", "roe", "roa", "eps"} -> f.net_income
      [] name = "ebitda_margin" -> f.ebitda
      [] name \in {"current_ratio", "quick_ratio"} -> f.current_assets
      [] name \in {"debt_to_equity", "debt_to_assets"} -> f.total_debt
      [] name = "net_debt_to_ebitda" -> f.net_debt
      [] name = "interest_coverage" -> f.ebit
      [] name \in {"asset_turnover", "receivables_turnover"} -> f.revenue
      [] name \in {"inventory_turnover", "payables_turnover"} -> f.cogs
      [] name = "dso" -> f.accounts_receivable
      [] name = "dio" -> f.inventory
      [] name = "dpo" -> f.accounts_payable
      [] name = "fcf_margin" -> f.fcf
      [] name = "capex_to_sales" -> f.capex
      [] name = "ocf_ratio" -> f.ocf
      [] name \in {"pe", "pb", "pcf"} -> f.price
      [] name = "dividend_yield" -> f.dividend_per_share
      [] OTHER -> f.market_cap
C19_PerShare(x, shares) ==
    IF x.kind # "num" \/ shares.kind # "num" THEN NaNNum
    ELSE IF shares.v = 0 THEN NaNNum
    ELSE Num((x.v * 1000) \div shares.v)
C19_Denominator(f, name) ==
    CASE name \in {"gross_margin", "operating_margin", "net_margin",
                   "ebitda_margin", "dso", "fcf_margin", "capex_to_sales",
                   "ev_over_sales"} -> f.revenue
      [] name = "roe" -> f.avg_equity
      [] name \in {"roa", "asset_turnover"} -> f.avg_assets
      [] name \in {"current_ratio", "quick_ratio", "ocf_ratio"} -> f.current_liabilities
      [] name = "debt_to_equity" -> f.total_equity
      [] name = "debt_to_assets" -> f.total_assets
      [] name \in {"net_debt_to_ebitda", "ev_over_ebitda"} -> f.ebitda
      [] name = "interest_coverage" -> f.interest_expense
      [] name = "inventory_turnover" -> f.avg_inventory
      [] name = "receivables_turnover" -> f.avg_ar
      [] name = "payables_turnover" -> f.avg_ap
      [] name \in {"dio", "dpo"} -> f.cogs
      [] name = "eps" -> f.shares_out
      [] name = "pe" -> C19_PerShare(f.net_income, f.shares_out)
      [] name = "pb" -> C19_PerShare(f.total_equity, f.shares_out)
      [] name = "pcf" -> C19_PerShare(f.ocf, f.shares_out)
      [] OTHER -> f.price
C19_Divisions == RatioNames \ {"cash_conversion_cycle"}
C19_Undefined(f, name) ==
    \/ C19_Denominator(f, name).kind # "num"
    \/ C19_Denominator(f, name).v = 0
    \/ C19_Numerator(f, name).kind # "num"
C20_MarketCap(rin) ==
    IF rin.latest["market_cap"].kind = "num" THEN rin.latest["market_cap"].v
    ELSE rin.latest["price"].v * rin.latest["shares_outstanding"].v
C20_NetDebt(rin) ==
    LET debt == rin.latest["short_term_debt"].v + rin.latest["long_term_debt"].v
        cash == rin.latest["cash_and_equivalents"].v
    IN  IF debt - cash > 0 THEN debt - cash ELSE 0
C20_Defined(rin, base) ==
    /\ rin.complete
    /\ \/ rin.latest["market_cap"].kind = "num"
       \/ /\ rin.latest["price"].kind = "num"
          /\ rin.latest["shares_outstanding"].kind = "num"
    /\ \A k \in {"short_term_debt", "long_term_debt", "cash_and_equivalents"} :
           rin.latest[k].kind = "num"
    /\ base.kind = "num" /\ base.v # 0
C20_EvOver(rin, base, ratio) ==
    C20_Defined(rin, base) =>
        /\ ratio.kind = "num"
        /\ ratio.v = ((C20_MarketCap(rin) + C20_NetDebt(rin)) * 1000) \div base.v
C20_EvRatios ==
    state.summary.called =>
        /\ C20_EvOver(state.rin, Ttm(state.rin, "ebitda"),
                      state.summary.ratios["ev_over_ebitda"])
        /\ C20_EvOver(state.rin, Ttm(state.rin, "revenue"),
                      state.summary.ratios["ev_over_sales"])
        /\ (state.rin.complete
            /\ RatioFacts(state.rin).net_debt.kind = "num")
               => RatioFacts(state.rin).net_debt.v >= 0
        /\ state.rin = FixtureDataset
               => state.summary.ratios["ev_over_ebitda"] = Num((1800 * 1000) \div 264)
C20_Witness ==
    /\ state.summary.called
    /\ state.rin.complete
    /\ state.rin.latest["cash_and_equivalents"] = Num(2000)
    /\ state.rin.latest["market_cap"].kind = "nan"
    /\ state.rin.latest["ebitda"] = Num(264)
    /\ state.summary.ratios["ev_over_ebitda"] = Num((1500 * 1000) \div 264)

\* ---------------------------------------------------------------- C21
\* C21: when a missing or incomplete dataset reaches quant_metrics or
\* valuation, the stage appends an explicit error, leaves its own outputs
\* (growth_curve, ratios, anomalies; valuation) unset and returns, so that
\* the remaining stage still executes.
C21_Incomplete == ~state.before.present \/ ~IsComplete(state.before)
C21_HardPreconditions ==
    C21_Incomplete =>
        /\ pc # "raised"
        /\ Len(trace) >= 1 =>
               /\ trace[1] = "quant_metrics"
               /\ "QuantMetricsAgent skipped because financial dataset is incomplete."
                      \in Range(state.errors)
               /\ ~state.growth_curve /\ ~state.ratios /\ ~state.anomalies
        /\ Len(trace) >= 2 =>
               /\ trace[2] = "valuation"
               /\ "ValuationAgent skipped because prerequisites are missing."
                      \in Range(state.errors)
               /\ ~state.valuation
        /\ pc = "done" => trace = <<"quant_metrics", "valuation">>
C21_Witness ==
    /\ state.before.present
    /\ ~IsComplete(state.before)
    /\ state.before.balance_sheets # <<>>
    /\ pc = "done"
    /\ Len(state.errors) = 2
    /\ ~state.ratios /\ ~state.valuation

\* ---------------------------------------------------------------- C23
\* C23 (as claimed): the stages that inject the current price leave every
\* statement of the shared dataset, and its metrics, unchanged; after they
\* run the dataset's statements have the same metrics as before.
C23_StatementsUnchanged == state.financials = state.before

\* ---------------------------------------------------------------- C28
\* C28 (as claimed): whenever current_price is set and the dataset has
\* balance sheets, after quant_metrics (and after valuation) the balance
\* sheet with the latest period carries price = current_price, for datasets
\* from the cache as well as from the provider.
C28_LatestCarriesPrice ==
    (/\ Len(trace) >= 1
     /\ state.financials.present
     /\ state.financials.balance_sheets # <<>>
     /\ state.current_price.kind # "none")
        => LatestSheet(state.financials).price = state.current_price

\* ---------------------------------------------------------------- C22
\* C22 (as claimed): AnomalyDetector.detect never raises on missing data:
\* for any dataset with missing metrics or missing statements it returns
\* the growth and profitability flag lists (empty when nothing can be
\* evaluated).
C22_NothingToEvaluate(ain) ==
    /\ \A i \in 1..Len(ain.income) :
           ain.income[i].revenue.kind # "num" /\ ain.income[i].net_income.kind # "num"
    /\ ain.net_margin.kind # "num"
C22_NeverRaises ==
    state.flags.called =>
        /\ ~state.flags.raised
        /\ C22_NothingToEvaluate(state.ain) =>
               state.flags.growth = <<>> /\ state.flags.profitability = <<>>

\* C24 (as stated): with FCF, growth, terminal growth, forecast years, net
\* debt and shares fixed, for two WACC values w1 < w2 both above
\* terminal_growth the per-share DCF value at w2 is strictly smaller than at
\* w1.  state.waccs is <<w1, w2>>, state.per_share the two values.
C24_Evaluated ==
    /\ pc = "done" /\ trace = <<"dcf_fcff", "dcf_fcff">>
    /\ state.waccs[1] < state.waccs[2]
    /\ state.waccs[1] > state.din.terminal_growth
    /\ state.waccs[2] > state.din.terminal_growth
C24_Smaller(a, b) == ~IsNaN(a) /\ ~IsNaN(b) /\ a.v < b.v
C24_Decreasing ==
    C24_Evaluated => C24_Smaller(state.per_share[2], state.per_share[1])

\* C24 (amended): the same, for a positive FCF, a growth rate above -100%
\* and a positive share count.
C24_DecreasingPositive ==
    (C24_Evaluated /\ state.din.fcf > 0 /\ state.din.growth > -10000
                   /\ state.din.shares > 0)
        => C24_Smaller(state.per_share[2], state.per_share[1])
C24_Witness ==
    /\ C24_Evaluated /\ state.din.fcf > 0 /\ state.din.growth > -10000
    /\ state.din.shares > 0
    /\ state.per_share[2].v < state.per_share[1].v
\* the cases the amendment excludes, each with equal or rising values
C24_NegativeFcfRises ==
    (C24_Evaluated /\ state.din.fcf < 0 /\ state.din.growth > -10000
                   /\ state.din.shares > 0)
        => C24_Smaller(state.per_share[1], state.per_share[2])

\* C25 (as stated): in the scenario set of every valuation the bull case has
\* WACC <= base WACC and growth >= base growth, the bear case has
\* WACC >= base WACC and growth <= base growth, the bull WACC is at least 5%
\* and the bear WACC at most 20%.
C25_HasScenarios == state.engine.called /\ Len(state.engine.scenarios) = 3
C25_Base == state.engine.scenarios[1]
C25_Bull == state.engine.scenarios[2]
C25_Bear == state.engine.scenarios[3]
C25_ScenarioBounds ==
    C25_HasScenarios =>
        /\ C25_Bull.wacc <= C25_Base.wacc /\ C25_Bull.g >= C25_Base.g
        /\ C25_Bear.wacc >= C25_Base.wacc /\ C25_Bear.g <= C25_Base.g
        /\ C25_Bull.wacc >= 500 /\ C25_Bear.wacc <= 2000

\* C25 (amended): the bull WACC is at least 5% and the bear WACC at most 20%;
\* bull WACC <= base WACC when the base WACC is at least 5%; bear WACC >=
\* base WACC when the base WACC is at most 20%; bull growth >= base growth
\* when the base growth is at most bull WACC - 0.5pp; bear growth <= base
\* growth when the base growth is at least -5%.
C25_ClampedScenarioBounds ==
    C25_HasScenarios =>
        /\ C25_Bull.wacc >= 500 /\ C25_Bear.wacc <= 2000
        /\ C25_Base.wacc >= 500 => C25_Bull.wacc <= C25_Base.wacc
        /\ C25_Base.wacc <= 2000 => C25_Bear.wacc >= C25_Base.wacc
        /\ C25_Base.g <= C25_Bull.wacc - 50 => C25_Bull.g >= C25_Base.g
        /\ C25_Base.g >= -500 => C25_Bear.g <= C25_Base.g
C25_Witness ==
    /\ C25_HasScenarios
    /\ C25_Bull.wacc >= 500 /\ C25_Bull.wacc < C25_Base.wacc
    /\ C25_Bear.wacc > C25_Base.wacc
    /\ C25_Bull.g > C25_Base.g /\ C25_Bear.g < C25_Base.g

\* C26: GrowthCalculator computes each CAGR from the annual (month 12) rows
\* when these have at least 2 points with strictly positive start and end
\* values, and otherwise from the full series; the result is NaN only when
\* the full series has fewer than 2 points or a non-positive start or end.
C26_Points(df, col) ==
    FilterRows(df, [i \in 1..Len(df) |-> ~IsNaN(df[i][col])])
C26_Usable(df, col) ==
    LET points == C26_Points(df, col)
    IN  /\ Len(points) >= 2
        /\ points[1][col].v > 0 /\ points[Len(points)][col].v > 0
C26_Claimed(df, col) ==
    IF C26_Usable(FilterAnnual(df), col) THEN CagrFromDf(FilterAnnual(df), col)
    ELSE CagrFromDf(df, col)
C26_CagrPrefersUsableAnnual ==
    (state.growth.called /\ ~state.growth.raised) =>
        /\ state.growth.revenue_cagr = C26_Claimed(state.gin.income, "revenue")
        /\ state.growth.net_income_cagr
               = C26_Claimed(state.gin.income, "net_income")
        /\ IsNaN(state.growth.revenue_cagr)
               => ~C26_Usable(state.gin.income, "revenue")
        /\ IsNaN(state.growth.net_income_cagr)
               => ~C26_Usable(state.gin.income, "net_income")

\* C27: executing qa.run twice in succession on an otherwise unchanged state
\* leaves rewrite_requests, qa_report and errors the same as executing it
\* once.  The step taken with trace = <<"qa">> is the second execution.
C27_SecondPassIsNoOp ==
    [][trace = <<"qa">> =>
          /\ state'.rewrite_requests = state.rewrite_requests
          /\ state'.qa_report = state.qa_report
          /\ state'.errors = state.errors]_vars

\* C29: when a rerun chain re-executes a stage, every stage that depends on
\* it through depends_on (transitively) is re-executed after it before run
\* returns.  A position of trace lies in a rerun chain when a chain has been
\* opened before it and the final re-rendering has not started.
C29_InChain(i) ==
    /\ trace[i] \in Range(StageOrder)
    /\ \E k \in 1..(i - 1) : trace[k] \in PostRunMarks
    /\ \A k \in 1..i : trace[k] # "PostRun:render"
C29_DependentsRerun ==
    pc = "done" =>
        \A i \in 1..Len(trace) :
            C29_InChain(i) =>
                \A k \in Downstream(trace[i]) :
                    \E j \in (i + 1)..Len(trace) : trace[j] = k

\* C30: the result of _dedup_statements (calculations.py and data_load.py)
\* does not depend on the order of its input: for every permutation of the
\* statements the same statement survives for each period; and it is
\* idempotent, dedup(dedup(x)) = dedup(x).  A statement is identified by
\* its row, which stands for its metrics.
C30_Permutations(n) ==
    {p \in [1..n -> 1..n] : \A i, j \in 1..n : p[i] = p[j] => i = j}
C30_Permuted(statements, p) == [i \in 1..Len(statements) |-> statements[p[i]]]
C30_OrderIndependent(site, result) ==
    result.called =>
        /\ \A p \in C30_Permutations(Len(state.statements)) :
               Dedup(site, C30_Permuted(state.statements, p)) = result
        /\ ~result.raised => Dedup(site, result.value) = result
C30_DedupOrderIndependent ==
    /\ C30_OrderIndependent("engine", state.engine)
    /\ C30_OrderIndependent("loader", state.loader)

====
